---- MODULE Spec2Model ----
(***************************************************************************)
(* any-3d-model-to-glb: the validated conversion pipeline                  *)
(* (any3dModelToGlb), its argument validators and the conversion gateway   *)
(* (convertModel), as a state machine whose steps are the synchronous      *)
(* stretches of the async function between two awaits.                     *)
(*                                                                         *)
(* JavaScript values are records with a `tag` field; strings are sequences *)
(* of one-character strings; a template literal is the concatenation of    *)
(* its pieces, so a message is a sequence of string tokens.                *)
(***************************************************************************)
EXTENDS Integers, Sequences, FiniteSets, TLC

\* ------------------------------------------------------------------------
\* Bounds of the model
\* ------------------------------------------------------------------------

\* Longest content the conversion library hands back
MaxBytes == 2

\* ------------------------------------------------------------------------
\* JavaScript values
\* ------------------------------------------------------------------------

Undefined == [tag |-> "undefined"]

Null == [tag |-> "null"]

Arr == [tag |-> "array"]

Str(s) == [tag |-> "string", chars |-> s]

Num(n) == [tag |-> "number", num |-> n]

Bool(b) == [tag |-> "boolean", bool |-> b]

\* A plain object: its own enumerable properties in insertion order
Obj(props) == [tag |-> "object", props |-> props]

Prop(k, v) == [key |-> k, value |-> v]

\* A Uint8Array with the given content
U8(b) == [tag |-> "Uint8Array", bytes |-> b]

\* An Error instance; message is a sequence of string tokens
Err(name, message) == [tag |-> "error", name |-> name, message |-> message]

\* typeof v
typeof(v) ==
    IF v.tag \in {"null", "array", "object", "error", "Uint8Array"} THEN "object"
    ELSE v.tag

\* Outcome of evaluating something that may throw: a value or a thrown value
Ok(v) == [ok |-> TRUE, value |-> v]

Throw(e) == [ok |-> FALSE, value |-> e]

\* error.message inside a catch block: a TypeError when the thrown value is
\* null or undefined, undefined when it has no such property
GetMessage(e) ==
    IF e.tag \in {"null", "undefined"}
    THEN Throw(Err("TypeError", <<"Cannot read properties of ", e.tag, " (reading 'message')">>))
    ELSE IF e.tag = "error" THEN Ok(Str(e.message))
    ELSE Ok(Undefined)

\* ------------------------------------------------------------------------
\* src/constants.js
\* ------------------------------------------------------------------------

VALID_INPUT_EXTENSIONS ==
    { <<"d","a","e">>, <<"f","b","x">>, <<"g","l","b">>, <<"g","l","t","f">>,
      <<"o","b","j">>, <<"s","t","l">> }

\* ------------------------------------------------------------------------
\* src/validate-arg.js
\* ------------------------------------------------------------------------

\* path.length > 1000
MaxPathLength == 1000

\* {1,9} in /\.([a-z0-9]{1,9})$/
MaxExtLength == 9

\* U+0000 through U+001F, written as tokens
ControlChars == { "\t", "\n", "\r", "U+0000", "U+001F" }

\* /[<>:"|?*\x00-\x1F]/
invalidChars == { "<", ">", ":", "\"", "|", "?", "*" } \cup ControlChars

\* [a-z0-9]
LowerAlnum ==
    { "a","b","c","d","e","f","g","h","i","j","k","l","m","n","o","p","q","r",
      "s","t","u","v","w","x","y","z","0","1","2","3","4","5","6","7","8","9" }

\* The last n elements of s
Tail_n(s, n) == SubSeq(s, Len(s) - n + 1, Len(s))

\* s.match(/\.([a-z0-9]{1,9})$/): the set of capture groups ext[1], empty
\* when there is no match (at most one length can match, "." is not [a-z0-9])
ExtMatch(s) ==
    { Tail_n(s, k) : k \in { j \in 1..MaxExtLength :
          /\ Len(s) >= j + 1
          /\ s[Len(s) - j] = "."
          /\ \A i \in (Len(s) - j + 1)..Len(s) : s[i] \in LowerAlnum } }

\* validatePath, had it allowed 999 characters at most
validatePath_max999(fnName, argName, path) ==
    LET xpx == <<fnName, "(): Invalid">>
        s   == path.chars
        ext == CHOOSE e \in ExtMatch(s) : TRUE
    IN  IF typeof(path) # "string" THEN Throw(Err("RangeError",
            xpx \o <<" ", argName, " argument type '", typeof(path), "', should be 'string'">>))
        ELSE IF Len(s) = 0 THEN Throw(Err("RangeError",
            xpx \o <<" ", argName, " argument is an empty string, should be a valid file path">>))
        ELSE IF Len(s) >= MaxPathLength THEN Throw(Err("RangeError",
            xpx \o <<" ", argName, " argument length ", ToString(Len(s)),
                     " exceeds maximum of 1000 characters">>))
        ELSE IF \E i \in 1..Len(s) : s[i] \in invalidChars THEN Throw(Err("RangeError",
            xpx \o <<" ", argName, " argument '">> \o s
                \o <<"' contains invalid characters for file paths">>))
        ELSE IF ExtMatch(s) = {} THEN Throw(Err("RangeError",
            xpx \o <<" ", argName, " argument has no valid file extension">>))
        ELSE IF argName = "outputPath" /\ ext # <<"g","l","b">> THEN Throw(Err("RangeError",
            xpx \o <<" ", argName, " argument extension '.">> \o ext
                \o <<"' is not supported, should be '.glb'">>))
        ELSE IF argName = "inputPath" /\ ext \notin VALID_INPUT_EXTENSIONS
        THEN Throw(Err("RangeError",
            xpx \o <<" ", argName, " argument extension '.">> \o ext
                \o <<"' is not a supported 3D model format">>))
        ELSE Ok(Undefined)

\* validatePath, had it let an outputPath have any extension
validatePath_anyOutputExtension(fnName, argName, path) ==
    LET xpx == <<fnName, "(): Invalid">>
        s   == path.chars
        ext == CHOOSE e \in ExtMatch(s) : TRUE
    IN  IF typeof(path) # "string" THEN Throw(Err("RangeError",
            xpx \o <<" ", argName, " argument type '", typeof(path), "', should be 'string'">>))
        ELSE IF Len(s) = 0 THEN Throw(Err("RangeError",
            xpx \o <<" ", argName, " argument is an empty string, should be a valid file path">>))
        ELSE IF Len(s) > MaxPathLength THEN Throw(Err("RangeError",
            xpx \o <<" ", argName, " argument length ", ToString(Len(s)),
                     " exceeds maximum of 1000 characters">>))
        ELSE IF \E i \in 1..Len(s) : s[i] \in invalidChars THEN Throw(Err("RangeError",
            xpx \o <<" ", argName, " argument '">> \o s
                \o <<"' contains invalid characters for file paths">>))
        ELSE IF ExtMatch(s) = {} THEN Throw(Err("RangeError",
            xpx \o <<" ", argName, " argument has no valid file extension">>))
        ELSE IF argName = "inputPath" /\ ext \notin VALID_INPUT_EXTENSIONS
        THEN Throw(Err("RangeError",
            xpx \o <<" ", argName, " argument extension '.">> \o ext
                \o <<"' is not a supported 3D model format">>))
        ELSE Ok(Undefined)

\* validatePath(fnName, argName, path): Ok(Undefined) or the RangeError thrown
validatePath(fnName, argName, path) ==
    LET xpx == <<fnName, "(): Invalid">>
        s   == path.chars
        ext == CHOOSE e \in ExtMatch(s) : TRUE
    IN  IF typeof(path) # "string" THEN Throw(Err("RangeError",
            xpx \o <<" ", argName, " argument type '", typeof(path), "', should be 'string'">>))
        ELSE IF Len(s) = 0 THEN Throw(Err("RangeError",
            xpx \o <<" ", argName, " argument is an empty string, should be a valid file path">>))
        ELSE IF Len(s) > MaxPathLength THEN Throw(Err("RangeError",
            xpx \o <<" ", argName, " argument length ", ToString(Len(s)),
                     " exceeds maximum of 1000 characters">>))
        ELSE IF \E i \in 1..Len(s) : s[i] \in invalidChars THEN Throw(Err("RangeError",
            xpx \o <<" ", argName, " argument '">> \o s
                \o <<"' contains invalid characters for file paths">>))
        ELSE IF ExtMatch(s) = {} THEN Throw(Err("RangeError",
            xpx \o <<" ", argName, " argument has no valid file extension">>))
        ELSE IF argName = "outputPath" /\ ext # <<"g","l","b">> THEN Throw(Err("RangeError",
            xpx \o <<" ", argName, " argument extension '.">> \o ext
                \o <<"' is not supported, should be '.glb'">>))
        ELSE IF argName = "inputPath" /\ ext \notin VALID_INPUT_EXTENSIONS
        THEN Throw(Err("RangeError",
            xpx \o <<" ", argName, " argument extension '.">> \o ext
                \o <<"' is not a supported 3D model format">>))
        ELSE Ok(Undefined)

\* validateOptionsObject(fnName, options)
validateOptionsObject(fnName, options) ==
    LET xpx == <<fnName, "(): Invalid">>
    IN  IF options.tag = "null" THEN Throw(Err("RangeError",
            xpx \o <<" ", "options", " argument is null, should be a plain object">>))
        ELSE IF options.tag = "array" THEN Throw(Err("RangeError",
            xpx \o <<" ", "options", " argument is an array, should be a plain object">>))
        ELSE IF typeof(options) # "object" THEN Throw(Err("RangeError",
            xpx \o <<" ", "options", " argument type '", typeof(options),
                     "', should be 'object'">>))
        ELSE Ok(Undefined)

\* new Set(['noticeLevel'])
validOptionNames == { "noticeLevel" }

\* new Set([1,2,3,4])
ValidNoticeLevels == { 1, 2, 3, 4 }

\* obj[key], undefined when the property is absent
GetProp(obj, key) ==
    IF \E i \in 1..Len(obj.props) : obj.props[i].key = key
    THEN obj.props[CHOOSE i \in 1..Len(obj.props) : obj.props[i].key = key].value
    ELSE Undefined

\* validateOptionsProps, had it not looked for unrecognised option names
validateOptionsProps_anyName(fnName, defaultedOptions) ==
    LET xpx   == <<fnName, "():">>
        noticeLevel == GetProp(defaultedOptions, "noticeLevel")
    IN  IF typeof(noticeLevel) # "number" THEN Throw(Err("RangeError",
            xpx \o <<" Invalid ", "options", ".noticeLevel type '", typeof(noticeLevel),
                     "', should be 'number'">>))
        ELSE IF noticeLevel.num \notin ValidNoticeLevels THEN Throw(Err("RangeError",
            xpx \o <<" Invalid ", "options", ".noticeLevel should be 1, 2, 3, or 4">>))
        ELSE Ok(Undefined)

\* validateOptionsProps(fnName, defaultedOptions)
validateOptionsProps(fnName, defaultedOptions) ==
    LET xpx   == <<fnName, "():">>
        props == defaultedOptions.props
        bad   == { i \in 1..Len(props) : props[i].key \notin validOptionNames }
        first == CHOOSE i \in bad : \A j \in bad : i <= j
        noticeLevel == GetProp(defaultedOptions, "noticeLevel")
    IN  IF bad # {} THEN Throw(Err("RangeError",
            xpx \o <<" ", "options", ".", props[first].key,
                     " is not a recognised option name">>))
        ELSE IF typeof(noticeLevel) # "number" THEN Throw(Err("RangeError",
            xpx \o <<" Invalid ", "options", ".noticeLevel type '", typeof(noticeLevel),
                     "', should be 'number'">>))
        ELSE IF noticeLevel.num \notin ValidNoticeLevels THEN Throw(Err("RangeError",
            xpx \o <<" Invalid ", "options", ".noticeLevel should be 1, 2, 3, or 4">>))
        ELSE Ok(Undefined)

\* ------------------------------------------------------------------------
\* src/convert-model.js
\* ------------------------------------------------------------------------

\* filename.includes('/') || filename.includes('\\')
PathSeparators == { "/", "\\" }

\* What assimpjs.ConvertFileList() hands back
LibResult(isSuccess, fileCount, errorCode, content) ==
    [IsSuccess |-> isSuccess, FileCount |-> fileCount,
     GetErrorCode |-> errorCode, GetContent |-> content]

\* convertModel, had a failed initAssimpjs() left assimpjs set
convertModel_keepsFailedInit(filename, modelBytes, assimp, initOutcome, result) ==
    LET xpx == <<"convertModel(): Invalid">>
        s   == filename.chars
        ext == CHOOSE e \in ExtMatch(s) : TRUE
        keep(o) == [outcome |-> o, assimpjs |-> assimp, converted |-> FALSE]
    IN  IF typeof(filename) # "string" \/ Len(s) = 0 THEN keep(Throw(Err("TypeError",
            xpx \o <<" filename argument type '", typeof(filename),
                     "', should be non-empty 'string'">>)))
        ELSE IF \E i \in 1..Len(s) : s[i] \in PathSeparators THEN keep(Throw(Err("RangeError",
            xpx \o <<" filename argument '">> \o s
                \o <<"' should not include path separators \"/\" or \"\\\"">>)))
        ELSE IF ExtMatch(s) = {} THEN keep(Throw(Err("RangeError",
            xpx \o <<" filename argument has no valid file extension">>)))
        ELSE IF ext \notin VALID_INPUT_EXTENSIONS THEN keep(Throw(Err("RangeError",
            xpx \o <<" filename argument extension '.">> \o ext
                \o <<"' is not a supported 3D model format">>)))
        ELSE IF modelBytes.tag # "Uint8Array" THEN keep(Throw(Err("TypeError",
            xpx \o <<" modelBytes argument type '", typeof(modelBytes),
                     "', should be 'Uint8Array'">>)))
        ELSE IF assimp = "null" /\ ~initOutcome.ok
        THEN [outcome |-> Throw(initOutcome.value), assimpjs |-> "ready",
              converted |-> FALSE]
        ELSE IF ~result.IsSuccess \/ result.FileCount = 0
        THEN [outcome |-> Throw(Err("Error",
                  <<"Conversion failed, error code: ", result.GetErrorCode>>)),
              assimpjs |-> "ready", converted |-> TRUE]
        ELSE [outcome |-> Ok(U8(result.GetContent)), assimpjs |-> "ready",
              converted |-> TRUE]

\* convertModel(filename, modelBytes), given the module-level assimpjs
\* ("null" or "ready"), the outcome of initAssimpjs() should it be awaited,
\* and the library's result: the promise's outcome, the new assimpjs and
\* whether assimpjs.ConvertFileList() was called
convertModel(filename, modelBytes, assimp, initOutcome, result) ==
    LET xpx == <<"convertModel(): Invalid">>
        s   == filename.chars
        ext == CHOOSE e \in ExtMatch(s) : TRUE
        keep(o) == [outcome |-> o, assimpjs |-> assimp, converted |-> FALSE]
    IN  IF typeof(filename) # "string" \/ Len(s) = 0 THEN keep(Throw(Err("TypeError",
            xpx \o <<" filename argument type '", typeof(filename),
                     "', should be non-empty 'string'">>)))
        ELSE IF \E i \in 1..Len(s) : s[i] \in PathSeparators THEN keep(Throw(Err("RangeError",
            xpx \o <<" filename argument '">> \o s
                \o <<"' should not include path separators \"/\" or \"\\\"">>)))
        ELSE IF ExtMatch(s) = {} THEN keep(Throw(Err("RangeError",
            xpx \o <<" filename argument has no valid file extension">>)))
        ELSE IF ext \notin VALID_INPUT_EXTENSIONS THEN keep(Throw(Err("RangeError",
            xpx \o <<" filename argument extension '.">> \o ext
                \o <<"' is not a supported 3D model format">>)))
        ELSE IF modelBytes.tag # "Uint8Array" THEN keep(Throw(Err("TypeError",
            xpx \o <<" modelBytes argument type '", typeof(modelBytes),
                     "', should be 'Uint8Array'">>)))
        ELSE IF assimp = "null" /\ ~initOutcome.ok
        THEN keep(Throw(initOutcome.value))
        ELSE IF ~result.IsSuccess \/ result.FileCount = 0
        THEN [outcome |-> Throw(Err("Error",
                  <<"Conversion failed, error code: ", result.GetErrorCode>>)),
              assimpjs |-> "ready", converted |-> TRUE]
        ELSE [outcome |-> Ok(U8(result.GetContent)), assimpjs |-> "ready",
              converted |-> TRUE]

\* ------------------------------------------------------------------------
\* any-3d-model-to-glb.js: any3dModelToGlb()
\* ------------------------------------------------------------------------

\* const fn = 'any3dModelToGlb'
fn == "any3dModelToGlb"

\* noticeLevel: 3, the default
DefaultNoticeLevel == 3

\* The notice codes
CodeReading == 14481

CodeConverting == 15118

CodeWriting == 19158

CodeWrote == 26152

CodeReadError == 48172

CodeConvertError == 49480

CodeWriteError == 41510

\* { ...base, ...over } for two plain objects: a key of `over` already in
\* `base` keeps its position and takes the new value, a new key is appended
RECURSIVE SpreadProps(_, _)
SpreadProps(base, over) ==
    IF over = <<>> THEN base
    ELSE LET p == Head(over)
             merged == IF \E i \in 1..Len(base) : base[i].key = p.key
                       THEN [i \in 1..Len(base) |->
                                IF base[i].key = p.key THEN p ELSE base[i]]
                       ELSE Append(base, p)
         IN  SpreadProps(merged, Tail(over))

\* Filename, had it passed the whole inputPath on
Filename_wholePath(inputPath) == inputPath

\* inputPath.split(/[/\\]/).pop() || inputPath
Filename(inputPath) ==
    LET s    == inputPath.chars
        seps == { i \in 1..Len(s) : s[i] \in PathSeparators }
        last == IF seps = {} THEN 0 ELSE CHOOSE i \in seps : \A j \in seps : j <= i
        seg  == SubSeq(s, last + 1, Len(s))
    IN  IF seg = <<>> THEN inputPath ELSE Str(seg)

\* Buffer.from(inputData): a TypeError unless given a string or bytes
BufferFrom(inputData) ==
    IF inputData.tag = "string" THEN Ok(U8(inputData.chars))
    ELSE IF inputData.tag = "Uint8Array" THEN Ok(inputData)
    ELSE Throw(Err("TypeError", <<"The first argument must be of type string or an instance",
               " of Buffer, ArrayBuffer, or Array or an Array-like Object. Received ",
               inputData.tag>>))

\* One invocation, not yet started: the arguments and the function's locals.
\* options is Undefined when the argument is omitted.
NewCall(inputPath, outputPath, options) ==
    [pc |-> "start",
     inputPath |-> inputPath, outputPath |-> outputPath, options |-> options,
     noticeLevel |-> 0, notices |-> <<>>,
     inputData |-> Undefined, filename |-> Undefined, outputData |-> Undefined,
     promise |-> [state |-> "pending"],
     readFileCalls |-> <<>>, convertModelCalls |-> <<>>, writeFileCalls |-> <<>>]

\* return Promise.resolve({ didSucceed, notices })
Resolve(c, didSucceed, notices) ==
    [c EXCEPT !.pc = "done", !.notices = notices,
              !.promise = [state |-> "fulfilled",
                           value |-> [didSucceed |-> didSucceed, notices |-> notices]]]

\* An exception leaving the async function
Reject(c, e) ==
    [c EXCEPT !.pc = "done", !.promise = [state |-> "rejected", value |-> e]]

\* Catch, had it returned the failure without pushing the error notice
Catch_noPush(c, notices, code, error, message) ==
    LET detail == GetMessage(error)
    IN  IF ~detail.ok THEN Reject([c EXCEPT !.notices = notices], detail.value)
        ELSE Resolve(c, FALSE, notices)

\* Catch, had it pushed the error notice and let the function go on
Catch_goesOn(c, notices, code, error, message) ==
    LET detail == GetMessage(error)
    IN  IF ~detail.ok THEN Reject([c EXCEPT !.notices = notices], detail.value)
        ELSE Resolve(c, FALSE,
                 Append(Append(notices, [code |-> code, detail |-> detail.value,
                                         message |-> message]),
                        [code |-> CodeWriting,
                         message |-> <<"Writing output file ">> \o c.outputPath.chars]))

\* The catch blocks: notices.push({ code, detail: error.message, message })
\* and return the failure
Catch(c, notices, code, error, message) ==
    LET detail == GetMessage(error)
    IN  IF ~detail.ok THEN Reject([c EXCEPT !.notices = notices], detail.value)
        ELSE Resolve(c, FALSE,
                 Append(notices, [code |-> code, detail |-> detail.value,
                                  message |-> message]))

\* PushIf, had it tested noticeLevel === level
PushIf_exactLevel(notices, noticeLevel, level, code, message) ==
    IF noticeLevel = level
    THEN Append(notices, [code |-> code, message |-> message])
    ELSE notices

\* PushIf, had it pushed whatever the noticeLevel
PushIf_always(notices, noticeLevel, level, code, message) ==
    Append(notices, [code |-> code, message |-> message])

\* PushIf, had it put the notice in front of the others
PushIf_unshift(notices, noticeLevel, level, code, message) ==
    IF noticeLevel <= level
    THEN <<[code |-> code, message |-> message]>> \o notices
    ELSE notices

\* if (noticeLevel <= level) notices.push({ code, message })
PushIf(notices, noticeLevel, level, code, message) ==
    IF noticeLevel <= level
    THEN Append(notices, [code |-> code, message |-> message])
    ELSE notices

\* options = {}: the default of the parameter when the argument is omitted
OptionsParameter(options) ==
    IF options.tag = "undefined" THEN Obj(<<>>) ELSE options

\* DefaultedOptions, had the default been one level more verbose
DefaultedOptions_level2(options) ==
    Obj(SpreadProps(<<Prop("noticeLevel", Num(DefaultNoticeLevel - 1))>>, options.props))

\* The defaulting, had the default been spread over the caller's options
DefaultedOptions_defaultWins(options) ==
    Obj(SpreadProps(options.props, <<Prop("noticeLevel", Num(DefaultNoticeLevel))>>))

\* The defaulting, had it also replaced properties whose value is undefined
DefaultedOptions_fillsUndefined(options) ==
    LET given == { i \in 1..Len(options.props) : options.props[i].value # Undefined }
    IN  Obj(SpreadProps(<<Prop("noticeLevel", Num(DefaultNoticeLevel))>>,
                        [i \in 1..Len(options.props) |->
                            IF i \in given THEN options.props[i]
                            ELSE Prop(options.props[i].key, Num(DefaultNoticeLevel))]))

\* const defaultedOptions = { noticeLevel: 3, ...options }
DefaultedOptions(options) ==
    Obj(SpreadProps(<<Prop("noticeLevel", Num(DefaultNoticeLevel))>>, options.props))

\* any3dModelToGlb, had it called readFile before validating its arguments
any3dModelToGlb_readsBeforeValidating(c) ==
    LET options == OptionsParameter(c.options)
        v1 == validatePath(fn, "inputPath", c.inputPath)
        v2 == validatePath(fn, "outputPath", c.outputPath)
        v3 == validateOptionsObject(fn, options)
        defaultedOptions == DefaultedOptions(options)
        v4 == validateOptionsProps(fn, defaultedOptions)
        noticeLevel == GetProp(defaultedOptions, "noticeLevel").num
        notices == PushIf(<<>>, noticeLevel, 1, CodeReading,
                          <<"Reading input file ">> \o c.inputPath.chars)
        c1 == [c EXCEPT !.readFileCalls = Append(@, c.inputPath)]
    IN  IF ~v1.ok THEN Reject(c1, v1.value)
        ELSE IF ~v2.ok THEN Reject(c1, v2.value)
        ELSE IF ~v3.ok THEN Reject(c1, v3.value)
        ELSE IF ~v4.ok THEN Reject(c1, v4.value)
        ELSE [c1 EXCEPT !.pc = "readFile", !.noticeLevel = noticeLevel,
                        !.notices = notices]

\* any3dModelToGlb, had it validated the options before the paths
any3dModelToGlb_optionsFirst(c) ==
    LET options == OptionsParameter(c.options)
        v1 == validatePath(fn, "inputPath", c.inputPath)
        v2 == validatePath(fn, "outputPath", c.outputPath)
        v3 == validateOptionsObject(fn, options)
        defaultedOptions == DefaultedOptions(options)
        v4 == validateOptionsProps(fn, defaultedOptions)
        noticeLevel == GetProp(defaultedOptions, "noticeLevel").num
        notices == PushIf(<<>>, noticeLevel, 1, CodeReading,
                          <<"Reading input file ">> \o c.inputPath.chars)
    IN  IF ~v3.ok THEN Reject(c, v3.value)
        ELSE IF ~v4.ok THEN Reject(c, v4.value)
        ELSE IF ~v1.ok THEN Reject(c, v1.value)
        ELSE IF ~v2.ok THEN Reject(c, v2.value)
        ELSE [c EXCEPT !.pc = "readFile", !.noticeLevel = noticeLevel,
                       !.notices = notices,
                       !.readFileCalls = Append(@, c.inputPath)]

\* any3dModelToGlb, had it written the defaults into the caller's options
any3dModelToGlb_assignsDefaults(c) ==
    LET options == OptionsParameter(c.options)
        v1 == validatePath(fn, "inputPath", c.inputPath)
        v2 == validatePath(fn, "outputPath", c.outputPath)
        v3 == validateOptionsObject(fn, options)
        defaultedOptions == DefaultedOptions(options)
        v4 == validateOptionsProps(fn, defaultedOptions)
        noticeLevel == GetProp(defaultedOptions, "noticeLevel").num
        notices == PushIf(<<>>, noticeLevel, 1, CodeReading,
                          <<"Reading input file ">> \o c.inputPath.chars)
    IN  IF ~v1.ok THEN Reject(c, v1.value)
        ELSE IF ~v2.ok THEN Reject(c, v2.value)
        ELSE IF ~v3.ok THEN Reject(c, v3.value)
        ELSE IF ~v4.ok THEN Reject(c, v4.value)
        ELSE [c EXCEPT !.pc = "readFile", !.noticeLevel = noticeLevel,
                       !.notices = notices,
                       !.options = IF @ = Undefined THEN @ ELSE defaultedOptions,
                       !.readFileCalls = Append(@, c.inputPath)]

\* From the call to the first await: validation, defaulting, the reading
\* notice and the call of readFile(inputPath)
any3dModelToGlb(c) ==
    LET options == OptionsParameter(c.options)
        v1 == validatePath(fn, "inputPath", c.inputPath)
        v2 == validatePath(fn, "outputPath", c.outputPath)
        v3 == validateOptionsObject(fn, options)
        defaultedOptions == DefaultedOptions(options)
        v4 == validateOptionsProps(fn, defaultedOptions)
        noticeLevel == GetProp(defaultedOptions, "noticeLevel").num
        notices == PushIf(<<>>, noticeLevel, 1, CodeReading,
                          <<"Reading input file ">> \o c.inputPath.chars)
    IN  IF ~v1.ok THEN Reject(c, v1.value)
        ELSE IF ~v2.ok THEN Reject(c, v2.value)
        ELSE IF ~v3.ok THEN Reject(c, v3.value)
        ELSE IF ~v4.ok THEN Reject(c, v4.value)
        ELSE [c EXCEPT !.pc = "readFile", !.noticeLevel = noticeLevel,
                       !.notices = notices,
                       !.readFileCalls = Append(@, c.inputPath)]

\* afterReadFile, had it called readFile once more after a failure
afterReadFile_retry(c, settled) ==
    LET inputData == settled.value
        filename  == Filename(c.inputPath)
        notices   == PushIf(c.notices, c.noticeLevel, 1, CodeConverting,
                            <<"Converting ">> \o filename.chars)
        bytes     == BufferFrom(inputData)
        c1        == [c EXCEPT !.inputData = inputData, !.filename = filename]
    IN  IF ~settled.ok /\ Len(c.readFileCalls) < 2
        THEN [c EXCEPT !.readFileCalls = Append(@, c.inputPath)]
        ELSE IF ~settled.ok
        THEN Catch(c, c.notices, CodeReadError, settled.value,
                   <<"Error reading file at ">> \o c.inputPath.chars)
        ELSE IF ~bytes.ok
        THEN Catch(c1, notices, CodeConvertError, bytes.value,
                   <<"Error converting model ">> \o c.inputPath.chars \o <<" to GLB format">>)
        ELSE [c1 EXCEPT !.pc = "convertModel", !.notices = notices,
                        !.convertModelCalls =
                            Append(@, [filename |-> filename, modelBytes |-> bytes.value])]

\* From readFile settling to the await of convertModel
afterReadFile(c, settled) ==
    LET inputData == settled.value
        filename  == Filename(c.inputPath)
        notices   == PushIf(c.notices, c.noticeLevel, 1, CodeConverting,
                            <<"Converting ">> \o filename.chars)
        bytes     == BufferFrom(inputData)
        c1        == [c EXCEPT !.inputData = inputData, !.filename = filename]
    IN  IF ~settled.ok
        THEN Catch(c, c.notices, CodeReadError, settled.value,
                   <<"Error reading file at ">> \o c.inputPath.chars)
        ELSE IF ~bytes.ok
        THEN Catch(c1, notices, CodeConvertError, bytes.value,
                   <<"Error converting model ">> \o c.inputPath.chars \o <<" to GLB format">>)
        ELSE [c1 EXCEPT !.pc = "convertModel", !.notices = notices,
                        !.convertModelCalls =
                            Append(@, [filename |-> filename, modelBytes |-> bytes.value])]

\* afterConvertModel, had it called the gateway once more after a failure
afterConvertModel_retry(c, settled) ==
    LET outputData == settled.value
        notices    == PushIf(c.notices, c.noticeLevel, 1, CodeWriting,
                             <<"Writing output file ">> \o c.outputPath.chars)
    IN  IF ~settled.ok /\ Len(c.convertModelCalls) < 2
        THEN [c EXCEPT !.convertModelCalls = Append(@, c.convertModelCalls[1])]
        ELSE IF ~settled.ok
        THEN Catch(c, c.notices, CodeConvertError, settled.value,
                   <<"Error converting model ">> \o c.inputPath.chars \o <<" to GLB format">>)
        ELSE [c EXCEPT !.pc = "writeFile", !.outputData = outputData,
                       !.notices = notices,
                       !.writeFileCalls =
                           Append(@, [path |-> c.outputPath, data |-> outputData])]

\* afterConvertModel, had it written the converted bytes without their
\* last byte
afterConvertModel_truncated(c, settled) ==
    LET outputData == settled.value
        notices    == PushIf(c.notices, c.noticeLevel, 1, CodeWriting,
                             <<"Writing output file ">> \o c.outputPath.chars)
    IN  IF ~settled.ok
        THEN Catch(c, c.notices, CodeConvertError, settled.value,
                   <<"Error converting model ">> \o c.inputPath.chars \o <<" to GLB format">>)
        ELSE [c EXCEPT !.pc = "writeFile", !.outputData = outputData,
                       !.notices = notices,
                       !.writeFileCalls =
                           Append(@, [path |-> c.outputPath,
                                      data |-> U8(SubSeq(outputData.bytes, 1,
                                                  Len(outputData.bytes) - 1))])]

\* afterConvertModel, had it neither caught nor passed on a failed conversion
afterConvertModel_hangs(c, settled) ==
    LET outputData == settled.value
        notices    == PushIf(c.notices, c.noticeLevel, 1, CodeWriting,
                             <<"Writing output file ">> \o c.outputPath.chars)
    IN  IF ~settled.ok
        THEN [c EXCEPT !.pc = "hung"]
        ELSE [c EXCEPT !.pc = "writeFile", !.outputData = outputData,
                       !.notices = notices,
                       !.writeFileCalls =
                           Append(@, [path |-> c.outputPath, data |-> outputData])]

\* From convertModel settling to the await of writeFile
afterConvertModel(c, settled) ==
    LET outputData == settled.value
        notices    == PushIf(c.notices, c.noticeLevel, 1, CodeWriting,
                             <<"Writing output file ">> \o c.outputPath.chars)
    IN  IF ~settled.ok
        THEN Catch(c, c.notices, CodeConvertError, settled.value,
                   <<"Error converting model ">> \o c.inputPath.chars \o <<" to GLB format">>)
        ELSE [c EXCEPT !.pc = "writeFile", !.outputData = outputData,
                       !.notices = notices,
                       !.writeFileCalls =
                           Append(@, [path |-> c.outputPath, data |-> outputData])]

\* afterWriteFile, had it reported the length of the input data
afterWriteFile_inputLength(c, settled) ==
    LET length == ToString(Len(c.inputData.chars))
    IN  IF ~settled.ok
        THEN Catch(c, c.notices, CodeWriteError, settled.value,
                   <<"Error writing ", length, " bytes to ">> \o c.outputPath.chars)
        ELSE Resolve(c, TRUE,
                 PushIf(c.notices, c.noticeLevel, 2, CodeWrote,
                        <<"Wrote ", length, " bytes">>))

\* afterWriteFile, had it reported a failed write under the code of a failed
\* read
afterWriteFile_readErrorCode(c, settled) ==
    LET length == ToString(Len(c.outputData.bytes))
    IN  IF ~settled.ok
        THEN Catch(c, c.notices, CodeReadError, settled.value,
                   <<"Error writing ", length, " bytes to ">> \o c.outputPath.chars)
        ELSE Resolve(c, TRUE,
                 PushIf(c.notices, c.noticeLevel, 2, CodeWrote,
                        <<"Wrote ", length, " bytes">>))

\* From writeFile settling to the return
afterWriteFile(c, settled) ==
    LET length == ToString(Len(c.outputData.bytes))
    IN  IF ~settled.ok
        THEN Catch(c, c.notices, CodeWriteError, settled.value,
                   <<"Error writing ", length, " bytes to ">> \o c.outputPath.chars)
        ELSE Resolve(c, TRUE,
                 PushIf(c.notices, c.noticeLevel, 2, CodeWrote,
                        <<"Wrote ", length, " bytes">>))

\* ------------------------------------------------------------------------
\* The arguments a caller passes and what the collaborators do
\* ------------------------------------------------------------------------

InputPaths ==
    { Str(<<"a", ".", "o", "b", "j">>),
      Str(<<"d", "/", "b", ".", "s", "t", "l">>),
      Str(<<"d", "/", "c", "\\", "e", ".", "f", "b", "x">>),
      Str(<<"m", ".", "x", "y", "z">>),
      Num(123) }

OutputPaths ==
    { Str(<<"o", ".", "g", "l", "b">>),
      Str(<<"o", ".", "s", "t", "l">>),
      Str(<<"?", ".", "s", "t", "l">>),
      Bool(TRUE) }

OptionsArguments ==
    { Undefined, Obj(<<>>), Null, Arr, Str(<<"s", "t", "r">>),
      Obj(<<Prop("invalidProp", Num(123))>>),
      Obj(<<Prop("noticeLevel", Str(<<"h", "i", "g", "h">>))>>),
      Obj(<<Prop("noticeLevel", Undefined)>>),
      Obj(<<Prop("noticeLevel", Str(<<"h", "i", "g", "h">>)),
            Prop("invalidProp", Num(123))>>),
      Obj(<<Prop("invalidProp", Num(123)), Prop("noticeLevel", Num(5))>>) }
    \cup { Obj(<<Prop("noticeLevel", Num(n))>>) : n \in 1..5 }

\* Values a collaborator may throw: an Error, an object without a message,
\* null and undefined
Thrown == { Err("Error", <<"ENOENT">>), Obj(<<>>), Null, Undefined }

\* readFile(path) resolves with the file's content, or with something that
\* is no content at all, or rejects
ReadFileOutcomes ==
    { Ok(Str(<<"v">>)), Ok(Undefined) } \cup { Throw(e) : e \in Thrown }

\* initAssimpjs() resolves or rejects
InitOutcomes == { Ok(Undefined) } \cup { Throw(e) : e \in Thrown }

Byte == { 0, 1 }

Contents == UNION { [1..n -> Byte] : n \in 0..MaxBytes }

LibResults ==
    { LibResult(TRUE, 1, "0", b) : b \in Contents }
    \cup { LibResult(TRUE, 0, "0", <<>>),
           LibResult(FALSE, 0, "1", <<>>),
           LibResult(FALSE, 1, "1", <<>>) }

\* writeFile(path, data) resolves or rejects
WriteFileOutcomes == { Ok(Undefined) } \cup { Throw(e) : e \in Thrown }

\* ------------------------------------------------------------------------
\* One call of any3dModelToGlb() in a process
\* ------------------------------------------------------------------------

VARIABLES
    call,       \* the invocation: arguments, locals, position, promise
    assimpjs,   \* convert-model.js: let assimpjs = null
    awaited,    \* what each awaited collaborator did, in order
    runs,       \* the same call made at each noticeLevel, by noticeLevel
    env,        \* what the collaborators do in each of those calls
    probe,      \* a validator applied on its own: its argument and outcome
    cli,        \* the command line run: argv, position, output, exit code
    calls,      \* the invocations in flight at the same time
    gateways,   \* convertModel() as called by each of them
    initAssimpjsCalls   \* how many times initAssimpjs() was called

vars == <<call, assimpjs, awaited, runs, env, probe, cli, calls, gateways,
          initAssimpjsCalls>>

Init ==
    /\ \E i \in InputPaths, o \in OutputPaths, opt \in OptionsArguments :
           call = NewCall(i, o, opt)
    /\ assimpjs \in { "null", "ready" }
    /\ awaited = <<>>
    /\ runs = <<>>
    /\ env = Undefined
    /\ probe = Undefined
    /\ cli = Undefined
    /\ calls = <<>>
    /\ gateways = <<>>
    /\ initAssimpjsCalls = 0

Call ==
    /\ call.pc = "start"
    /\ call' = any3dModelToGlb(call)
    /\ UNCHANGED <<assimpjs, awaited, runs, env, probe, cli, calls, gateways,
               initAssimpjsCalls>>

ReadFileSettles ==
    /\ call.pc = "readFile"
    /\ \E settled \in ReadFileOutcomes :
           /\ call' = afterReadFile(call, settled)
           /\ awaited' = Append(awaited, [callee |-> "readFile", outcome |-> settled])
    /\ UNCHANGED <<assimpjs, runs, env, probe, cli, calls, gateways,
               initAssimpjsCalls>>

ConvertModelSettles ==
    /\ call.pc = "convertModel"
    /\ \E initOutcome \in InitOutcomes, result \in LibResults :
           LET args == call.convertModelCalls[Len(call.convertModelCalls)]
               r    == convertModel(args.filename, args.modelBytes, assimpjs,
                                    initOutcome, result)
           IN  /\ call' = afterConvertModel(call, r.outcome)
               /\ assimpjs' = r.assimpjs
               /\ awaited' = Append(awaited, [callee |-> "convertModel",
                                              outcome |-> r.outcome,
                                              converted |-> r.converted])
    /\ UNCHANGED <<runs, env, probe, cli, calls, gateways,
               initAssimpjsCalls>>

WriteFileSettles ==
    /\ call.pc = "writeFile"
    /\ \E settled \in WriteFileOutcomes :
           /\ call' = afterWriteFile(call, settled)
           /\ awaited' = Append(awaited, [callee |-> "writeFile", outcome |-> settled])
    /\ UNCHANGED <<assimpjs, runs, env, probe, cli, calls, gateways,
               initAssimpjsCalls>>

Next == Call \/ ReadFileSettles \/ ConvertModelSettles \/ WriteFileSettles

Spec == Init /\ [][Next]_vars

\* The same call, when the function runs once called and every collaborator
\* that was invoked eventually returns or throws
SpecLive ==
    /\ Init
    /\ [][Next]_vars
    /\ WF_vars(Call)
    /\ WF_vars(ReadFileSettles)
    /\ WF_vars(ConvertModelSettles)
    /\ WF_vars(WriteFileSettles)

\* ------------------------------------------------------------------------
\* The same call made at every noticeLevel against collaborators that do
\* the same thing in each
\* ------------------------------------------------------------------------

Levels == ValidNoticeLevels

Envs ==
    [readFile : ReadFileOutcomes, assimpjs : { "null", "ready" },
     initAssimpjs : InitOutcomes, result : LibResults, writeFile : WriteFileOutcomes]

InitLevels ==
    /\ env \in Envs
    /\ \E i \in InputPaths, o \in OutputPaths :
           runs = [l \in Levels |-> NewCall(i, o, Obj(<<Prop("noticeLevel", Num(l))>>))]
    /\ call = NewCall(Undefined, Undefined, Undefined)
    /\ assimpjs = "null"
    /\ awaited = <<>>
    /\ probe = Undefined
    /\ cli = Undefined
    /\ calls = <<>>
    /\ gateways = <<>>
    /\ initAssimpjsCalls = 0

\* The step a run at position pc takes, given what the collaborators do
StepRun(c) ==
    IF c.pc = "start" THEN any3dModelToGlb(c)
    ELSE IF c.pc = "readFile" THEN afterReadFile(c, env.readFile)
    ELSE IF c.pc = "convertModel"
    THEN LET args == c.convertModelCalls[Len(c.convertModelCalls)]
         IN  afterConvertModel(c, convertModel(args.filename, args.modelBytes,
                 env.assimpjs, env.initAssimpjs, env.result).outcome)
    ELSE IF c.pc = "writeFile" THEN afterWriteFile(c, env.writeFile)
    ELSE c

\* Every run at position pc takes its step
Advance(pc) ==
    /\ \E l \in Levels : runs[l].pc = pc
    /\ runs' = [l \in Levels |-> IF runs[l].pc = pc THEN StepRun(runs[l]) ELSE runs[l]]
    /\ UNCHANGED <<call, assimpjs, awaited, env, probe, cli, calls, gateways,
               initAssimpjsCalls>>

LevelsCall == Advance("start")

LevelsReadFileSettles == Advance("readFile")

LevelsConvertModelSettles == Advance("convertModel")

LevelsWriteFileSettles == Advance("writeFile")

NextLevels ==
    \/ LevelsCall
    \/ LevelsReadFileSettles
    \/ LevelsConvertModelSettles
    \/ LevelsWriteFileSettles

SpecLevels == InitLevels /\ [][NextLevels]_vars

\* ------------------------------------------------------------------------
\* The same call made with options omitted, with {} and with each
\* noticeLevel given, against collaborators that do the same thing in each
\* ------------------------------------------------------------------------

SuppliedLevel == [n1 |-> 1, n2 |-> 2, n3 |-> 3, n4 |-> 4, n5 |-> 5]

DefaultsRuns == { "omitted", "empty" } \cup DOMAIN SuppliedLevel

DefaultsOptions(k) ==
    IF k = "omitted" THEN Undefined
    ELSE IF k = "empty" THEN Obj(<<>>)
    ELSE Obj(<<Prop("noticeLevel", Num(SuppliedLevel[k]))>>)

InitDefaults ==
    /\ env \in Envs
    /\ \E i \in InputPaths, o \in OutputPaths :
           runs = [k \in DefaultsRuns |-> NewCall(i, o, DefaultsOptions(k))]
    /\ call = NewCall(Undefined, Undefined, Undefined)
    /\ assimpjs = "null"
    /\ awaited = <<>>
    /\ probe = Undefined
    /\ cli = Undefined
    /\ calls = <<>>
    /\ gateways = <<>>
    /\ initAssimpjsCalls = 0

\* Every one of these runs at position pc takes its step
AdvanceDefaults(pc) ==
    /\ \E k \in DefaultsRuns : runs[k].pc = pc
    /\ runs' = [k \in DefaultsRuns |->
                   IF runs[k].pc = pc THEN StepRun(runs[k]) ELSE runs[k]]
    /\ UNCHANGED <<call, assimpjs, awaited, env, probe, cli, calls, gateways,
                   initAssimpjsCalls>>

DefaultsCall == AdvanceDefaults("start")

DefaultsReadFileSettles == AdvanceDefaults("readFile")

DefaultsConvertModelSettles == AdvanceDefaults("convertModel")

DefaultsWriteFileSettles == AdvanceDefaults("writeFile")

NextDefaults ==
    \/ DefaultsCall
    \/ DefaultsReadFileSettles
    \/ DefaultsConvertModelSettles
    \/ DefaultsWriteFileSettles

SpecDefaults == InitDefaults /\ [][NextDefaults]_vars

\* ------------------------------------------------------------------------
\* The validators applied on their own, as validate-arg.test.js applies them
\* ------------------------------------------------------------------------

\* s.repeat(n)
Repeat(s, n) == [i \in 1..(n * Len(s)) |-> s[((i - 1) % Len(s)) + 1]]

\* The function names validators are called with: any3dModelToGlb's, the test's
FnNames == { fn, "a" }

ArgNames == { "inputPath", "outputPath" }

\* Values passed as a path
PathValues ==
    { Undefined, Null, Num(123), Obj(<<>>),
      Str(<<>>),
      Str(<<"m", "o", "d", "e", "l", ".", "o", "b", "j">>),
      Str(<<"m", "o", "d", "e", "l", ".", "s", "t", "l">>),
      Str(<<"m", "o", "d", "e", "l", ".", "g", "l", "b">>),
      Str(<<"m", "o", "d", "e", "l", ".", "x", "y", "z">>),
      Str(<<"m", "o", "d", "e", "l">>),
      Str(<<"x", ".", "d", "a", "e">>),
      Str(<<"x", ".", "f", "b", "x">>),
      Str(<<"d", "/", "x", ".", "g", "l", "t", "f">>),
      Str(<<".", "g", "l", "b">>),
      Str(<<"a", ".", "b", ".", "g", "l", "b">>),
      Str(<<"a", ".">>),
      Str(<<"a", ".", "O", "B", "J">>),
      Str(<<"a", ".", "o", "b", "j", " ">>),
      Str(<<"e", "x", "t", ".", "i", "s", "-", "i", "n", "v", "a", "l", "i", "d">>),
      Str(<<"a", ".", "a", "b", "c", "d", "e", "f", "g", "h", "i">>),
      Str(<<"a", ".", "a", "b", "c", "d", "e", "f", "g", "h", "i", "j">>),
      Str(<<"i", "n", "v", "a", "l", "i", "d", "|", "n", "a", "m", "e", ".", "o", "b", "j">>),
      Str(<<"C", ":", "\\", "x", ".", "g", "l", "b">>),
      Str(<<"a", "<", "b">>),
      Str(<<"a", "\n", ".", "o", "b", "j">>),
      Str(<<"U+0000", ".", "g", "l", "b">>),
      Str(<<"a", "U+001F", ".", "x", "y", "z">>),
      Str(Repeat(<<"/", "a">>, 498) \o <<".", "s", "t", "l">>),
      Str(Repeat(<<"a">>, 996) \o <<".", "g", "l", "b">>),
      Str(Repeat(<<"a">>, 997) \o <<".", "g", "l", "b">>),
      Str(Repeat(<<"a">>, 997) \o <<".", "s", "t", "l">>),
      Str(Repeat(<<"a">>, 1001)),
      Str(Repeat(<<"|">>, 1001)) }

\* Values of an options property
PropValues ==
    { Num(n) : n \in 0..5 }
    \cup { Undefined, Null, Bool(TRUE), Str(<<"h", "i", "g", "h">>), Str(<<"1">>) }

\* Values passed as options
OptionsValues ==
    { Undefined, Null, Arr, Bool(TRUE), Num(3), Str(<<"s", "t", "r">>), Obj(<<>>),
      Obj(<<Prop("invalidProp", Num(123))>>) }
    \cup { Obj(<<Prop("noticeLevel", v)>>) : v \in PropValues }
    \cup { Obj(<<Prop("noticeLevel", v), Prop("invalidProp", Num(123))>>) : v \in PropValues }
    \cup { Obj(<<Prop("invalidProp", Num(123)), Prop("noticeLevel", v)>>) : v \in PropValues }

\* The options as any3dModelToGlb checks them: the object check, the defaults,
\* the check of the properties
ResolveOptions(fnName, options) ==
    LET v3 == validateOptionsObject(fnName, options)
    IN  IF ~v3.ok THEN v3
        ELSE validateOptionsProps(fnName, DefaultedOptions(options))

Pending == [tag |-> "pending"]

InitValidators ==
    /\ \/ \E f \in FnNames, a \in ArgNames, p \in PathValues :
              probe = [validator |-> "validatePath", fnName |-> f, argName |-> a,
                       value |-> p, outcome |-> Pending]
       \/ \E f \in FnNames, o \in OptionsValues :
              probe = [validator |-> "validateOptions", fnName |-> f,
                       argName |-> "options", value |-> o, outcome |-> Pending]
    /\ call = NewCall(Undefined, Undefined, Undefined)
    /\ assimpjs = "null"
    /\ awaited = <<>>
    /\ runs = <<>>
    /\ env = Undefined
    /\ cli = Undefined
    /\ calls = <<>>
    /\ gateways = <<>>
    /\ initAssimpjsCalls = 0

ValidatePath ==
    /\ probe.validator = "validatePath"
    /\ probe.outcome = Pending
    /\ probe' = [probe EXCEPT
                     !.outcome = validatePath(probe.fnName, probe.argName, probe.value)]
    /\ UNCHANGED <<call, assimpjs, awaited, runs, env, cli, calls, gateways,
                   initAssimpjsCalls>>

ValidateOptions ==
    /\ probe.validator = "validateOptions"
    /\ probe.outcome = Pending
    /\ probe' = [probe EXCEPT !.outcome = ResolveOptions(probe.fnName, probe.value)]
    /\ UNCHANGED <<call, assimpjs, awaited, runs, env, cli, calls, gateways,
                   initAssimpjsCalls>>

NextValidators == ValidatePath \/ ValidateOptions

SpecValidators == InitValidators /\ [][NextValidators]_vars

\* ------------------------------------------------------------------------
\* The same call made twice in one process, one after the other, the
\* collaborators doing the second time what they did the first time
\* ------------------------------------------------------------------------

NotCalled == [tag |-> "not called"]

\* What a collaborator does now: what it did before, if it was called before
Replay(recorded, outcomes) == IF recorded = NotCalled THEN outcomes ELSE { recorded }

\* The call that is running: the second once the first has finished
Current == IF runs[1].pc # "done" THEN 1 ELSE 2

InitTwice ==
    /\ \E i \in InputPaths, o \in OutputPaths, opt \in OptionsArguments :
           runs = [k \in { 1, 2 } |-> NewCall(i, o, opt)]
    /\ env = [readFile |-> NotCalled, initAssimpjs |-> NotCalled,
              result |-> NotCalled, writeFile |-> NotCalled]
    /\ assimpjs \in { "null", "ready" }
    /\ call = NewCall(Undefined, Undefined, Undefined)
    /\ awaited = <<>>
    /\ probe = Undefined
    /\ cli = Undefined
    /\ calls = <<>>
    /\ gateways = <<>>
    /\ initAssimpjsCalls = 0

TwiceCall ==
    /\ runs[Current].pc = "start"
    /\ runs' = [runs EXCEPT ![Current] = any3dModelToGlb(@)]
    /\ UNCHANGED <<call, assimpjs, awaited, env, probe, cli, calls, gateways,
                   initAssimpjsCalls>>

TwiceReadFileSettles ==
    /\ runs[Current].pc = "readFile"
    /\ \E settled \in Replay(env.readFile, ReadFileOutcomes) :
           /\ runs' = [runs EXCEPT ![Current] = afterReadFile(@, settled)]
           /\ env' = [env EXCEPT !.readFile = settled]
    /\ UNCHANGED <<call, assimpjs, awaited, probe, cli, calls, gateways,
                   initAssimpjsCalls>>

TwiceConvertModelSettles ==
    /\ runs[Current].pc = "convertModel"
    /\ \E initOutcome \in Replay(env.initAssimpjs, InitOutcomes),
          result \in Replay(env.result, LibResults) :
           LET c    == runs[Current]
               args == c.convertModelCalls[Len(c.convertModelCalls)]
               r    == convertModel(args.filename, args.modelBytes, assimpjs,
                                    initOutcome, result)
           IN  /\ runs' = [runs EXCEPT ![Current] = afterConvertModel(@, r.outcome)]
               /\ assimpjs' = r.assimpjs
               /\ env' = [env EXCEPT
                              !.initAssimpjs = IF assimpjs = "null" THEN initOutcome ELSE @,
                              !.result = IF r.converted THEN result ELSE @]
    /\ UNCHANGED <<call, awaited, probe, cli, calls, gateways, initAssimpjsCalls>>

TwiceWriteFileSettles ==
    /\ runs[Current].pc = "writeFile"
    /\ \E settled \in Replay(env.writeFile, WriteFileOutcomes) :
           /\ runs' = [runs EXCEPT ![Current] = afterWriteFile(@, settled)]
           /\ env' = [env EXCEPT !.writeFile = settled]
    /\ UNCHANGED <<call, assimpjs, awaited, probe, cli, calls, gateways,
                   initAssimpjsCalls>>

NextTwice ==
    \/ TwiceCall
    \/ TwiceReadFileSettles
    \/ TwiceConvertModelSettles
    \/ TwiceWriteFileSettles

SpecTwice == InitTwice /\ [][NextTwice]_vars

\* ------------------------------------------------------------------------
\* Several calls of any3dModelToGlb() in flight in one process, their steps
\* interleaving at the awaits
\* ------------------------------------------------------------------------

\* How many calls are in flight
MaxCalls == 2

CallIds == 1..MaxCalls

\* The arguments of the calls in flight
ConcArguments ==
    { <<i, Str(<<"o", ".", "g", "l", "b">>), opt>> :
          i \in { Str(<<"a", ".", "o", "b", "j">>),
                  Str(<<"d", "/", "b", ".", "s", "t", "l">>) },
          opt \in { Undefined, Obj(<<Prop("noticeLevel", Num(1))>>) } }

\* What the collaborators do for the calls in flight
ConcReadFileOutcomes == { Ok(Str(<<"v">>)), Throw(Err("Error", <<"ENOENT">>)) }

ConcInitOutcomes == { Ok(Undefined), Throw(Err("Error", <<"no wasm">>)) }

ConcLibResults == { LibResult(TRUE, 1, "0", <<1>>), LibResult(FALSE, 0, "1", <<>>) }

ConcWriteFileOutcomes == { Ok(Undefined), Throw(Err("Error", <<"EACCES">>)) }

\* convertModel() not called, or settled and awaited
Idle == [pc |-> "idle", outcome |-> Pending]

\* The checks convertModel() makes of its arguments pass
ChecksPass(filename, modelBytes) ==
    convertModel(filename, modelBytes, "ready", Ok(Undefined),
                 LibResult(TRUE, 1, "0", <<>>)).outcome.ok

InitConc ==
    /\ \E args \in [CallIds -> ConcArguments] :
           calls = [k \in CallIds |-> NewCall(args[k][1], args[k][2], args[k][3])]
    /\ gateways = [k \in CallIds |-> Idle]
    /\ awaited = [k \in CallIds |-> <<>>]
    /\ assimpjs = "null"
    /\ initAssimpjsCalls = 0
    /\ call = NewCall(Undefined, Undefined, Undefined)
    /\ runs = <<>>
    /\ env = Undefined
    /\ probe = Undefined
    /\ cli = Undefined

\* Update, had notices been one module-level array the calls share
Update_sharedNotices(k, c) ==
    calls' = [j \in CallIds |->
                 IF j = k THEN c ELSE [calls[j] EXCEPT !.notices = c.notices]]

\* const notices = [], let inputData, const filename, let outputData: the
\* locals of call k change, those of the other calls do not
Update(k, c) == calls' = [calls EXCEPT ![k] = c]

ConcCall(k) ==
    /\ calls[k].pc = "start"
    /\ Update(k, any3dModelToGlb(calls[k]))
    /\ UNCHANGED <<call, assimpjs, awaited, runs, env, probe, cli, gateways,
                   initAssimpjsCalls>>

\* readFile settles; on success convertModel() is called and runs up to its
\* first await, that of initAssimpjs(), or to its end
ConcReadFileSettles(k) ==
    /\ calls[k].pc = "readFile"
    /\ \E settled \in ConcReadFileOutcomes, result \in ConcLibResults :
           LET c    == afterReadFile(calls[k], settled)
               args == c.convertModelCalls[Len(c.convertModelCalls)]
               r    == convertModel(args.filename, args.modelBytes, assimpjs,
                                    Ok(Undefined), result)
           IN  /\ Update(k, c)
               /\ awaited' = [awaited EXCEPT ![k] =
                      Append(@, [callee |-> "readFile", outcome |-> settled])]
               /\ IF c.pc # "convertModel"
                  THEN UNCHANGED <<gateways, initAssimpjsCalls>>
                  ELSE IF assimpjs = "null" /\ ChecksPass(args.filename, args.modelBytes)
                  THEN /\ gateways' = [gateways EXCEPT ![k] =
                              [pc |-> "initAssimpjs", outcome |-> Pending]]
                       /\ initAssimpjsCalls' = initAssimpjsCalls + 1
                  ELSE /\ gateways' = [gateways EXCEPT ![k] =
                              [pc |-> "settled", outcome |-> r.outcome]]
                       /\ UNCHANGED initAssimpjsCalls
    /\ UNCHANGED <<call, assimpjs, runs, env, probe, cli>>

\* initAssimpjs() settles in convertModel() as called by call k, which runs
\* to its end
ConcInitAssimpjsSettles(k) ==
    /\ gateways[k].pc = "initAssimpjs"
    /\ \E initOutcome \in ConcInitOutcomes, result \in ConcLibResults :
           LET c    == calls[k]
               args == c.convertModelCalls[Len(c.convertModelCalls)]
               r    == convertModel(args.filename, args.modelBytes, "null",
                                    initOutcome, result)
           IN  /\ gateways' = [gateways EXCEPT ![k] =
                      [pc |-> "settled", outcome |-> r.outcome]]
               /\ assimpjs' = IF initOutcome.ok THEN "ready" ELSE assimpjs
    /\ UNCHANGED <<call, awaited, runs, env, probe, cli, calls, initAssimpjsCalls>>

\* The promise of convertModel() having settled, call k goes on
ConcConvertModelSettles(k) ==
    /\ calls[k].pc = "convertModel"
    /\ gateways[k].pc = "settled"
    /\ Update(k, afterConvertModel(calls[k], gateways[k].outcome))
    /\ awaited' = [awaited EXCEPT ![k] =
           Append(@, [callee |-> "convertModel", outcome |-> gateways[k].outcome])]
    /\ gateways' = [gateways EXCEPT ![k] = Idle]
    /\ UNCHANGED <<call, assimpjs, runs, env, probe, cli, initAssimpjsCalls>>

ConcWriteFileSettles(k) ==
    /\ calls[k].pc = "writeFile"
    /\ \E settled \in ConcWriteFileOutcomes :
           /\ Update(k, afterWriteFile(calls[k], settled))
           /\ awaited' = [awaited EXCEPT ![k] =
                  Append(@, [callee |-> "writeFile", outcome |-> settled])]
    /\ UNCHANGED <<call, assimpjs, runs, env, probe, cli, gateways,
                   initAssimpjsCalls>>

NextConc ==
    \E k \in CallIds :
        \/ ConcCall(k)
        \/ ConcReadFileSettles(k)
        \/ ConcInitAssimpjsSettles(k)
        \/ ConcConvertModelSettles(k)
        \/ ConcWriteFileSettles(k)

SpecConc == InitConc /\ [][NextConc]_vars

\* ------------------------------------------------------------------------
\* The command line: node any-3d-model-to-glb.js <args>
\* ------------------------------------------------------------------------

\* How many arguments follow the script's name
MaxArgs == 3

\* The arguments, each a string
ArgValues ==
    { <<"-", "h">>,
      <<"-", "-", "h", "e", "l", "p">>,
      <<"-", "v">>,
      <<"-", "-", "v", "e", "r", "s", "i", "o", "n">>,
      <<"a", ".", "o", "b", "j">>,
      <<"o", ".", "g", "l", "b">>,
      <<"-", "n", "1">>, <<"-", "n", "2">>,
      <<"-", "n", "3">>, <<"-", "n", "4">>,
      <<"-", "n", "5">>, <<>> }

ArgLists == UNION { [1..n -> ArgValues] : n \in 0..MaxArgs }

\* args.includes(x)
Includes(args, x) == \E i \in 1..Len(args) : args[i] = x

\* argsContainHelpFlag, had it known -h only
argsContainHelpFlag_shortOnly(args) == Includes(args, <<"-", "h">>)

argsContainHelpFlag(args) ==
    Includes(args, <<"-", "h">>) \/ Includes(args, <<"-", "-", "h", "e", "l", "p">>)

argsContainVersionFlag(args) ==
    Includes(args, <<"-", "v">>) \/ Includes(args, <<"-", "-", "v", "e", "r", "s", "i", "o", "n">>)

\* const [ inputPath, outputPath, flags ] = args
Destructure(args, i) == IF i <= Len(args) THEN Str(args[i]) ELSE Undefined

\* !x for a string or undefined
Not(x) == x = Undefined \/ x = Str(<<>>)

\* switch (flags): the noticeLevel, undefined when flags is none of the four
FlagsNoticeLevel(flags) ==
    IF flags = Str(<<"-", "n", "1">>) THEN Num(1)
    ELSE IF flags = Str(<<"-", "n", "2">>) THEN Num(2)
    ELSE IF flags = Str(<<"-", "n", "3">>) THEN Num(3)
    ELSE IF flags = Str(<<"-", "n", "4">>) THEN Num(4)
    ELSE Undefined

\* n.toString() for a positive integer, as characters
RECURSIVE NumberToString(_)
NumberToString(n) ==
    IF n < 10 THEN <<ToString(n)>>
    ELSE NumberToString(n \div 10) \o <<ToString(n % 10)>>

\* notices.map(n => `\n  ${c[0]}_${c.slice(1)}: ${n.message}`).join(''),
\* without the underscore
RECURSIVE noticesToDisplay_noUnderscore(_)
noticesToDisplay_noUnderscore(notices) ==
    IF notices = <<>> THEN <<>>
    ELSE LET c == NumberToString(Head(notices).code)
         IN  <<"\n  ">> \o c \o <<": ">> \o Head(notices).message
                 \o noticesToDisplay_noUnderscore(Tail(notices))

\* notices.map(n => `\n  ${c[0]}_${c.slice(1)}: ${n.message}`).join('')
RECURSIVE noticesToDisplay(_)
noticesToDisplay(notices) ==
    IF notices = <<>> THEN <<>>
    ELSE LET c == NumberToString(Head(notices).code)
         IN  <<"\n  ", c[1], "_">> \o Tail(c) \o <<": ">> \o Head(notices).message
                 \o noticesToDisplay(Tail(notices))

\* process.exit(code) after the output so far
Exit(c, code) == [c EXCEPT !.pc = "exited", !.exitCode = Num(code)]

InitCli ==
    /\ \E args \in ArgLists :
           cli = [pc |-> "start", args |-> args, stdout |-> <<>>, stderr |-> <<>>,
                  exitCode |-> Undefined]
    /\ call = NewCall(Undefined, Undefined, Undefined)
    /\ assimpjs = "null"
    /\ awaited = <<>>
    /\ runs = <<>>
    /\ env = Undefined
    /\ probe = Undefined
    /\ calls = <<>>
    /\ gateways = <<>>
    /\ initAssimpjsCalls = 0

\* From the start of the script to process.exit() or to the first await in
\* any3dModelToGlb()
CliStart ==
    /\ cli.pc = "start"
    /\ LET args       == cli.args
           inputPath  == Destructure(args, 1)
           outputPath == Destructure(args, 2)
           flags      == Destructure(args, 3)
           noticeLevel == FlagsNoticeLevel(flags)
           options == IF noticeLevel # Undefined
                      THEN Obj(<<Prop("noticeLevel", noticeLevel)>>)
                      ELSE Obj(<<>>)
       IN  IF argsContainHelpFlag(args)
           THEN /\ cli' = Exit([cli EXCEPT !.stdout = Append(@, <<"cliUsage()">>)], 0)
                /\ UNCHANGED call
           ELSE IF argsContainVersionFlag(args)
           THEN /\ cli' = Exit([cli EXCEPT !.stdout =
                           Append(@, <<"any-3d-model-to-glb version 0.0.1">>)], 0)
                /\ UNCHANGED call
           ELSE IF Not(inputPath)
           THEN /\ cli' = Exit([cli EXCEPT !.stderr =
                           Append(@, <<"U+274C", " Missing inputPath argument\n\n",
                                       "cliUsage()">>)], 1)
                /\ UNCHANGED call
           ELSE IF Not(outputPath)
           THEN /\ cli' = Exit([cli EXCEPT !.stderr =
                           Append(@, <<"U+274C", " Missing outputPath argument\n\n",
                                       "cliUsage()">>)], 1)
                /\ UNCHANGED call
           ELSE /\ cli' = [cli EXCEPT !.pc = "any3dModelToGlb"]
                /\ call' = any3dModelToGlb(NewCall(inputPath, outputPath, options))
    /\ UNCHANGED <<assimpjs, awaited, runs, env, probe, calls, gateways,
                   initAssimpjsCalls>>

\* The promise of any3dModelToGlb() has settled: the notices are printed and
\* the process exits, or the rejection ends the process
CliFinish ==
    /\ cli.pc = "any3dModelToGlb"
    /\ call.pc = "done"
    /\ cli' =
           IF call.promise.state = "rejected"
           THEN Exit([cli EXCEPT !.stderr = Append(@, <<"Uncaught", call.promise.value>>)], 1)
           ELSE IF call.promise.value.didSucceed
           THEN Exit([cli EXCEPT !.stdout =
                    Append(@, <<"U+2705", " Conversion succeeded">>
                                  \o noticesToDisplay(call.promise.value.notices))], 0)
           ELSE Exit([cli EXCEPT !.stderr =
                    Append(@, <<"U+274C", " Conversion failed:">>
                                  \o noticesToDisplay(call.promise.value.notices))], 1)
    /\ UNCHANGED <<call, assimpjs, awaited, runs, env, probe, calls, gateways,
                   initAssimpjsCalls>>

NextCli ==
    \/ CliStart
    \/ ReadFileSettles
    \/ ConvertModelSettles
    \/ WriteFileSettles
    \/ CliFinish

SpecCli == InitCli /\ [][NextCli]_vars

\* ------------------------------------------------------------------------
\* Vocabulary of the properties
\* ------------------------------------------------------------------------

\* The severity tier of a notice code: its first digit
Tier(code) == code \div 10000

ErrorTier == 4

Codes(ns) == [i \in 1..Len(ns) |-> ns[i].code]

ErrorNotices(ns) == { i \in 1..Len(ns) : Tier(ns[i].code) = ErrorTier }

Last(ns) == ns[Len(ns)]

Tokens(message) == { message[i] : i \in 1..Len(message) }

\* The call returned a result object
Returned(c) == c.promise.state = "fulfilled"

\* The call failed with an exception
Rejected(c) == c.promise.state = "rejected"

\* The value of e.message for a thrown value e that has properties
ErrorMessage(e) == IF e.tag = "error" THEN Str(e.message) ELSE Undefined

\* The noticeLevel in force: the caller's, or else the default
EffectiveNoticeLevel(options) ==
    IF options.tag = "object" /\ \E i \in 1..Len(options.props) :
                                     options.props[i].key = "noticeLevel"
    THEN GetProp(options, "noticeLevel").num
    ELSE DefaultNoticeLevel

\* readFile, the gateway and writeFile were all invoked and all succeeded
FullySuccessful ==
    /\ Len(awaited) = 3
    /\ \A i \in 1..3 : awaited[i].outcome.ok

\* readFile was invoked and failed
ReadFileFailed ==
    /\ awaited # <<>>
    /\ Last(awaited).callee = "readFile"
    /\ ~Last(awaited).outcome.ok

\* The gateway ran the library, whose result was not a success or had no file
GatewayFailed ==
    /\ awaited # <<>>
    /\ Last(awaited).callee = "convertModel"
    /\ Last(awaited).converted
    /\ ~Last(awaited).outcome.ok

\* writeFile was invoked and failed
WriteFileFailed ==
    /\ awaited # <<>>
    /\ Last(awaited).callee = "writeFile"
    /\ ~Last(awaited).outcome.ok

\* The arguments that fail validation
InvalidArguments ==
    LET options == OptionsParameter(call.options)
    IN  { a \in { "inputPath" } : ~validatePath(fn, a, call.inputPath).ok }
        \cup { a \in { "outputPath" } : ~validatePath(fn, a, call.outputPath).ok }
        \cup { a \in { "options" } :
                   \/ ~validateOptionsObject(fn, options).ok
                   \/ ~validateOptionsProps(fn, DefaultedOptions(options)).ok }

\* a is b with some elements left out, the rest in the same order
RECURSIVE IsSubseq(_, _)
IsSubseq(a, b) ==
    IF a = <<>> THEN TRUE
    ELSE IF b = <<>> THEN FALSE
    ELSE IF Head(a) = Head(b) THEN IsSubseq(Tail(a), Tail(b))
    ELSE IsSubseq(a, Tail(b))

\* ------------------------------------------------------------------------
\* Properties
\* ------------------------------------------------------------------------

\* C1: in every result that any3dModelToGlb returns, didSucceed is true if
\* and only if the returned notices hold no error-tier (4xxxx) notice.
C1_DidSucceedIffNoErrorNotice ==
    Returned(call) =>
        (call.promise.value.didSucceed
            <=> ErrorNotices(call.promise.value.notices) = {})

\* A returned failure whose error notice follows two debug notices
C1_Witness ==
    /\ Returned(call)
    /\ ~call.promise.value.didSucceed
    /\ Codes(call.promise.value.notices) = <<CodeReading, CodeConverting, CodeConvertError>>

\* C2: when readFile fails, the run returns didSucceed=false with exactly one
\* error-tier notice, 48172 carrying the error's message as detail, and
\* neither the gateway nor writeFile is ever invoked.
C2_ReadFailureReturnsOneErrorNotice ==
    ReadFileFailed =>
        /\ Returned(call)
        /\ ~call.promise.value.didSucceed
        /\ Cardinality(ErrorNotices(call.promise.value.notices)) = 1
        /\ Last(call.promise.value.notices).code = CodeReadError
        /\ Last(call.promise.value.notices).detail
               = ErrorMessage(Last(awaited).outcome.value)
        /\ call.convertModelCalls = <<>>
        /\ call.writeFileCalls = <<>>

\* C3: when the library's result is not a success or has no file, the run
\* returns didSucceed=false with exactly one error-tier notice, 49480
\* carrying the gateway's error message as detail; writeFile is never
\* invoked and the gateway is invoked once only.
C3_GatewayFailureAbortsRun ==
    GatewayFailed =>
        /\ Returned(call)
        /\ ~call.promise.value.didSucceed
        /\ Cardinality(ErrorNotices(call.promise.value.notices)) = 1
        /\ Last(call.promise.value.notices).code = CodeConvertError
        /\ Last(call.promise.value.notices).detail
               = Str(Last(awaited).outcome.value.message)
        /\ Last(awaited).outcome.value.message[1] = "Conversion failed, error code: "
        /\ call.writeFileCalls = <<>>
        /\ Len(call.convertModelCalls) = 1
        /\ Len(awaited) = 2

\* A gateway failure at noticeLevel 1
C3_Witness ==
    /\ GatewayFailed
    /\ Returned(call)
    /\ Codes(call.promise.value.notices) = <<CodeReading, CodeConverting, CodeConvertError>>
    /\ Last(call.promise.value.notices).detail.chars[2] = "1"

\* C4: when writeFile fails after a successful read and conversion, the run
\* returns didSucceed=false with exactly one error-tier notice, 41510, and
\* the success notice 26152 is never appended.
C4_WriteFailureReturnsOneErrorNotice ==
    WriteFileFailed =>
        /\ Returned(call)
        /\ ~call.promise.value.didSucceed
        /\ Cardinality(ErrorNotices(call.promise.value.notices)) = 1
        /\ Last(call.promise.value.notices).code = CodeWriteError
        /\ \A i \in 1..Len(call.notices) : call.notices[i].code # CodeWrote

\* C5: once called with an invalid inputPath, outputPath or options, the
\* call has failed with a RangeError whose message names the function and
\* an invalid argument; there is no result, no notice, and readFile, the
\* gateway and writeFile have not been invoked.
C5_ValidationIsFailFast ==
    (call.pc # "start" /\ InvalidArguments # {}) =>
        /\ Rejected(call)
        /\ call.promise.value.tag = "error"
        /\ call.promise.value.name = "RangeError"
        /\ fn \in Tokens(call.promise.value.message)
        /\ Tokens(call.promise.value.message) \cap InvalidArguments # {}
        /\ call.notices = <<>>
        /\ call.readFileCalls = <<>>
        /\ call.convertModelCalls = <<>>
        /\ call.writeFileCalls = <<>>
        /\ awaited = <<>>

\* A call rejected because only its noticeLevel, 5, is invalid
C5_Witness ==
    /\ call.pc = "done"
    /\ InvalidArguments = { "options" }
    /\ Rejected(call)
    /\ call.options = Obj(<<Prop("noticeLevel", Num(5))>>)

\* C6: for the same paths and the same collaborator outcomes, the notices
\* returned at a lower noticeLevel contain those returned at every higher
\* noticeLevel, in the same relative order (1 over 2 over 3 over 4).
C6_VerbosityMonotone ==
    \A l \in DOMAIN runs, m \in DOMAIN runs :
        (l < m /\ runs[l].pc = "done" /\ runs[m].pc = "done") =>
            /\ runs[l].promise.state = runs[m].promise.state
            /\ Returned(runs[l]) =>
                   /\ runs[l].promise.value.didSucceed = runs[m].promise.value.didSucceed
                   /\ IsSubseq(runs[m].promise.value.notices,
                               runs[l].promise.value.notices)

\* The four runs of a successful conversion returned four, one, no and no
\* notices
C6_Witness ==
    /\ DOMAIN runs = Levels
    /\ \A l \in Levels : Returned(runs[l])
    /\ Len(runs[1].promise.value.notices) = 4
    /\ Len(runs[2].promise.value.notices) = 1
    /\ runs[3].promise.value.notices = <<>>
    /\ runs[4].promise.value.notices = <<>>

\* C7: every notice of a returned result has a severity tier at or above
\* the run's effective noticeLevel.
C7_SeverityFiltering ==
    Returned(call) =>
        \A i \in 1..Len(call.promise.value.notices) :
            Tier(call.promise.value.notices[i].code) >= EffectiveNoticeLevel(call.options)

\* A result at noticeLevel 2 that holds the info notice and no debug notice
C7_Witness ==
    /\ Returned(call)
    /\ EffectiveNoticeLevel(call.options) = 2
    /\ Codes(call.promise.value.notices) = <<CodeWrote>>

\* C8 as stated: on every fully successful run, default options included,
\* the final notice is 'Wrote N bytes' (26152) with N the positive length
\* of the data handed to writeFile.
C8_FinalNoticeAlwaysRecordsLength ==
    FullySuccessful =>
        /\ Returned(call)
        /\ call.promise.value.notices # <<>>
        /\ Last(call.promise.value.notices)
               = [code |-> CodeWrote,
                  message |-> <<"Wrote ", ToString(Len(call.writeFileCalls[1].data.bytes)),
                                " bytes">>]
        /\ Len(call.writeFileCalls[1].data.bytes) > 0

\* C8 amended: on a fully successful run at noticeLevel 1 or 2 the final
\* notice is 'Wrote N bytes' (26152) with N the length of the data handed
\* to writeFile; at noticeLevel 3, the default, and 4 no notice is recorded.
C8_FinalNoticeRecordsLengthAtLevels1And2 ==
    FullySuccessful =>
        /\ Returned(call)
        /\ Len(call.writeFileCalls) = 1
        /\ IF EffectiveNoticeLevel(call.options) <= 2
           THEN /\ call.promise.value.notices # <<>>
                /\ Last(call.promise.value.notices)
                       = [code |-> CodeWrote,
                          message |-> <<"Wrote ",
                                        ToString(Len(call.writeFileCalls[1].data.bytes)),
                                        " bytes">>]
           ELSE call.promise.value.notices = <<>>

\* A successful run at noticeLevel 2 that wrote two bytes
C8_Witness ==
    /\ FullySuccessful
    /\ EffectiveNoticeLevel(call.options) = 2
    /\ Len(call.writeFileCalls[1].data.bytes) = 2
    /\ Last(call.promise.value.notices).message = <<"Wrote ", "2", " bytes">>

\* C9: with options omitted or {}, a fully successful run returns exactly
\* { didSucceed: true, notices: [] }.
C9_DefaultSuccessHasNoNotices ==
    (FullySuccessful /\ call.options \in { Undefined, Obj(<<>>) }) =>
        call.promise = [state |-> "fulfilled",
                        value |-> [didSucceed |-> TRUE, notices |-> <<>>]]

\* A successful run whose options argument was omitted
C9_Witness ==
    /\ FullySuccessful
    /\ call.options = Undefined
    /\ Returned(call)
    /\ Len(call.writeFileCalls) = 1

\* C10: at noticeLevel 1 a fully successful run returns exactly the notices
\* 14481, 15118, 27345, 19158, 26152 in this order, the converting notice
\* naming the bare filename.
C10_FullNoticeSequenceAtLevel1 ==
    (FullySuccessful /\ EffectiveNoticeLevel(call.options) = 1) =>
        /\ Returned(call)
        /\ Codes(call.promise.value.notices)
               = <<CodeReading, CodeConverting, 27345, CodeWriting, CodeWrote>>
        /\ call.promise.value.notices[2].message
               = <<"Converting ">> \o Filename(call.inputPath).chars

\* C11: on a fully successful run readFile was invoked exactly once, with the
\* inputPath as passed, and writeFile exactly once, with the outputPath as
\* passed and exactly the bytes the conversion gateway returned.
C11_ExactlyOneReadAndOneWrite ==
    FullySuccessful =>
        /\ call.readFileCalls = <<call.inputPath>>
        /\ call.writeFileCalls
               = <<[path |-> call.outputPath, data |-> awaited[2].outcome.value]>>
        /\ awaited[2].callee = "convertModel"

\* A successful run on a path with a directory, whose conversion gave two bytes
C11_Witness ==
    /\ FullySuccessful
    /\ call.inputPath = Str(<<"d", "/", "b", ".", "s", "t", "l">>)
    /\ awaited[2].outcome.value = U8(<<1, 0>>)
    /\ call.writeFileCalls[1].data = U8(<<1, 0>>)

\* C12: a call with options omitted, or with {}, behaves at every step exactly
\* like the call with { noticeLevel: 3 }; a noticeLevel the caller supplies
\* replaces the default, the levels 1..4 being the level in force and a
\* supplied 5 being what validation sees and rejects.
C12_DefaultIsLevel3AndCallerOverrides ==
    /\ \A k \in { "omitted", "empty" } :
           [runs[k] EXCEPT !.options = runs["n3"].options] = runs["n3"]
    /\ \A k \in DOMAIN SuppliedLevel :
           runs[k].pc # "start" =>
               IF SuppliedLevel[k] \in ValidNoticeLevels
               THEN /\ Rejected(runs[k]) = Rejected(runs["n3"])
                    /\ ~Rejected(runs[k]) => runs[k].noticeLevel = SuppliedLevel[k]
               ELSE /\ Rejected(runs[k])
                    /\ runs[k].promise.value.name = "RangeError"

\* The calls went through: the defaulted ones returned no notices, the call at
\* level 1 returned them all, the call with 5 was rejected
C12_Witness ==
    /\ \A k \in { "omitted", "empty", "n3" } :
           /\ Returned(runs[k])
           /\ runs[k].promise.value = [didSucceed |-> TRUE, notices |-> <<>>]
    /\ Returned(runs["n1"])
    /\ Len(runs["n1"].promise.value.notices) = 4
    /\ Rejected(runs["n5"])

\* The validator threw a RangeError
ThrewRangeError(outcome) ==
    /\ ~outcome.ok
    /\ outcome.value.tag = "error"
    /\ outcome.value.name = "RangeError"

\* v is a number in {1,2,3,4}
IsValidLevel(v) == IF v.tag = "number" THEN v.num \in { 1, 2, 3, 4 } ELSE FALSE

\* C13: options validation throws a RangeError for null, for an array, for
\* every primitive, for every record with a key other than noticeLevel and
\* for every noticeLevel that is not a number in {1,2,3,4}; it accepts every
\* record whose only key is noticeLevel with a value in {1,2,3,4}.
C13_OptionsValidation ==
    (probe.validator = "validateOptions" /\ probe.outcome # Pending) =>
        LET v == probe.value
            keys == { v.props[i].key : i \in 1..Len(v.props) }
            levels == { v.props[i].value : i \in { j \in 1..Len(v.props) :
                                                     v.props[j].key = "noticeLevel" } }
        IN  IF v.tag # "object"
            THEN v.tag \in { "null", "array", "undefined", "boolean", "number", "string" }
                     => ThrewRangeError(probe.outcome)
            ELSE /\ keys \ { "noticeLevel" } # {} => ThrewRangeError(probe.outcome)
                 /\ (\E l \in levels : ~IsValidLevel(l)) => ThrewRangeError(probe.outcome)
                 /\ (keys = { "noticeLevel" } /\ \A l \in levels : IsValidLevel(l))
                        => probe.outcome = Ok(Undefined)

\* A record with a valid noticeLevel and an unknown key was rejected, the
\* error naming the key
C13_Witness ==
    /\ probe.validator = "validateOptions"
    /\ probe.value = Obj(<<Prop("noticeLevel", Num(2)), Prop("invalidProp", Num(123))>>)
    /\ probe.outcome # Pending
    /\ ThrewRangeError(probe.outcome)
    /\ "invalidProp" \in Tokens(probe.outcome.value.message)

\* The characters a path may not contain
ForbiddenChars ==
    { "<", ">", ":", "\"", "|", "?", "*", "\t", "\n", "\r", "U+0000", "U+001F" }

\* s ends in "." followed by the k characters of an extension
EndsInExtension(s, k) ==
    /\ Len(s) > k
    /\ s[Len(s) - k] = "."
    /\ \A i \in (Len(s) - k + 1)..Len(s) : s[i] \in LowerAlnum

\* The first rule a path breaks in the role argName, "none" if it breaks none
FirstViolatedRule(argName, path) ==
    LET s == path.chars
        n == Len(s)
    IN  IF path.tag # "string" THEN "type"
        ELSE IF n = 0 THEN "emptiness"
        ELSE IF n > 1000 THEN "length"
        ELSE IF \E i \in 1..n : s[i] \in ForbiddenChars THEN "forbidden characters"
        ELSE IF ~\E k \in 1..9 : EndsInExtension(s, k) THEN "missing extension"
        ELSE IF \E k \in 1..9 :
                    /\ EndsInExtension(s, k)
                    /\ IF argName = "outputPath"
                       THEN SubSeq(s, n - k + 1, n) # <<"g", "l", "b">>
                       ELSE SubSeq(s, n - k + 1, n) \notin VALID_INPUT_EXTENSIONS
        THEN "unsupported extension"
        ELSE "none"

\* The rule an error message of validatePath cites
RuleCited(message) ==
    LET said == message[5]
    IN  IF said = " argument type '" THEN "type"
        ELSE IF said = " argument is an empty string, should be a valid file path"
        THEN "emptiness"
        ELSE IF said = " argument length " THEN "length"
        ELSE IF Last(message) = "' contains invalid characters for file paths"
        THEN "forbidden characters"
        ELSE IF said = " argument has no valid file extension" THEN "missing extension"
        ELSE IF said = " argument extension '." THEN "unsupported extension"
        ELSE "other"

\* C14: validatePath(fn, role, path) returns without error exactly when path
\* is a string of 1 to 1000 characters with no control character and none of
\* < > : " | ? *, ending in "." and 1 to 9 lowercase alphanumerics that are glb
\* for outputPath or a valid input extension for inputPath; otherwise it
\* throws a RangeError naming the function, the role and the first rule
\* broken, in the order type, emptiness, length, forbidden characters, missing
\* extension, unsupported extension.
C14_PathValidation ==
    (probe.validator = "validatePath" /\ probe.outcome # Pending) =>
        LET rule == FirstViolatedRule(probe.argName, probe.value)
        IN  IF rule = "none"
            THEN probe.outcome = Ok(Undefined)
            ELSE /\ ThrewRangeError(probe.outcome)
                 /\ probe.outcome.value.message[1] = probe.fnName
                 /\ probe.outcome.value.message[4] = probe.argName
                 /\ RuleCited(probe.outcome.value.message) = rule

\* An inputPath of 1000 characters was accepted
C14_Witness ==
    /\ probe.validator = "validatePath"
    /\ probe.argName = "inputPath"
    /\ probe.outcome = Ok(Undefined)
    /\ probe.value.tag = "string"
    /\ Len(probe.value.chars) = 1000

\* The call was made with an outputPath ending in .stl
StlOutputCall ==
    /\ call.pc # "start"
    /\ call.outputPath.tag = "string"
    /\ Len(call.outputPath.chars) >= 4
    /\ Tail_n(call.outputPath.chars, 4) = <<".", "s", "t", "l">>

\* C15 as stated: a call whose outputPath ends in .stl fails with an error
\* citing the unsupported output extension, whatever the inputPath.
C15_StlOutputAlwaysCitesOutputExtension ==
    StlOutputCall =>
        /\ Rejected(call)
        /\ call.promise.value.message[4] = "outputPath"
        /\ RuleCited(call.promise.value.message) = "unsupported extension"

\* C15: a call whose outputPath ends in .stl fails validation with a
\* RangeError before any collaborator is invoked, whatever the inputPath; the
\* error is the inputPath's when the inputPath is invalid, and otherwise the
\* outputPath's, citing the unsupported extension .stl unless the outputPath
\* breaks an earlier rule.
C15_StlOutputFailsValidation ==
    StlOutputCall =>
        /\ Rejected(call)
        /\ call.promise.value.name = "RangeError"
        /\ call.readFileCalls = <<>>
        /\ call.convertModelCalls = <<>>
        /\ call.writeFileCalls = <<>>
        /\ IF FirstViolatedRule("inputPath", call.inputPath) # "none"
           THEN /\ call.promise.value.message[4] = "inputPath"
                /\ RuleCited(call.promise.value.message)
                       = FirstViolatedRule("inputPath", call.inputPath)
           ELSE /\ call.promise.value.message[4] = "outputPath"
                /\ RuleCited(call.promise.value.message)
                       = FirstViolatedRule("outputPath", call.outputPath)
                /\ FirstViolatedRule("outputPath", call.outputPath) = "unsupported extension"
                       => call.promise.value.message
                              = <<fn, "(): Invalid", " ", "outputPath",
                                  " argument extension '.", "s", "t", "l",
                                  "' is not supported, should be '.glb'">>

\* A call with a valid inputPath and the outputPath o.stl was rejected
C15_Witness ==
    /\ StlOutputCall
    /\ call.inputPath = Str(<<"a", ".", "o", "b", "j">>)
    /\ call.outputPath = Str(<<"o", ".", "s", "t", "l">>)
    /\ Rejected(call)
    /\ RuleCited(call.promise.value.message) = "unsupported extension"

Alone(c, log) ==
    LET c0 == NewCall(c.inputPath, c.outputPath, c.options)
        c1 == any3dModelToGlb(c0)
        c2 == afterReadFile(c1, log[1].outcome)
        c3 == afterConvertModel(c2, log[2].outcome)
        c4 == afterWriteFile(c3, log[3].outcome)
    IN  IF Len(log) = 0 THEN c1
        ELSE IF Len(log) = 1 THEN c2
        ELSE IF Len(log) = 2 THEN c3
        ELSE c4

\* C17: with several calls in flight, interleaving at their awaits, every
\* call is at each moment where it would be had it been made alone with its
\* own arguments and its own collaborators' outcomes: its notices are those
\* of its own stages, at or above its own noticeLevel, and its options and
\* its result owe nothing to the other calls.
C17_ConcurrentCallsAreIsolated ==
    \A k \in CallIds :
        calls[k].pc # "start" =>
            /\ calls[k] = Alone(calls[k], awaited[k])
            /\ \A i \in 1..Len(calls[k].notices) :
                   Tier(calls[k].notices[i].code) >= EffectiveNoticeLevel(calls[k].options)
            /\ Returned(calls[k]) =>
                   calls[k].promise.value.notices = calls[k].notices

\* Two calls on different files at different noticeLevels both returned, one
\* with four notices about a.obj and one with none, while initAssimpjs() had
\* been awaited by both
C17_Witness ==
    /\ calls[1].inputPath = Str(<<"a", ".", "o", "b", "j">>)
    /\ calls[2].inputPath = Str(<<"d", "/", "b", ".", "s", "t", "l">>)
    /\ Returned(calls[1])
    /\ Returned(calls[2])
    /\ initAssimpjsCalls = 2
    /\ Codes(calls[1].promise.value.notices)
           = <<CodeReading, CodeConverting, CodeWriting, CodeWrote>>
    /\ calls[1].promise.value.notices[2].message = <<"Converting ", "a", ".", "o", "b", "j">>
    /\ calls[2].promise.value = [didSucceed |-> TRUE, notices |-> <<>>]

\* The command line has a help flag, a version flag, lacks a path
HelpAsked == \E i \in 1..Len(cli.args) : cli.args[i] \in { <<"-", "h">>, <<"-", "-", "h", "e", "l", "p">> }

VersionAsked ==
    \E i \in 1..Len(cli.args) : cli.args[i] \in { <<"-", "v">>, <<"-", "-", "v", "e", "r", "s", "i", "o", "n">> }

PathMissing == Len(cli.args) < 2 \/ cli.args[1] = <<>> \/ cli.args[2] = <<>>

\* any3dModelToGlb() was never called and no collaborator was invoked
NoConversion ==
    /\ call = NewCall(Undefined, Undefined, Undefined)
    /\ awaited = <<>>
    /\ assimpjs = "null"

\* C18: once the command line has been looked at, a run with -h or --help
\* has printed the usage and exited with 0; otherwise a run with -v or
\* --version has printed the version and exited with 0; otherwise a run
\* lacking inputPath or outputPath has printed the usage on stderr and exited
\* with 1; in none of these was a conversion started.
C18_CliDispatch ==
    cli.pc # "start" =>
        IF HelpAsked
        THEN /\ cli.pc = "exited" /\ cli.exitCode = Num(0)
             /\ cli.stdout = << <<"cliUsage()">> >> /\ cli.stderr = <<>>
             /\ NoConversion
        ELSE IF VersionAsked
        THEN /\ cli.pc = "exited" /\ cli.exitCode = Num(0)
             /\ cli.stdout = << <<"any-3d-model-to-glb version 0.0.1">> >>
             /\ cli.stderr = <<>>
             /\ NoConversion
        ELSE IF PathMissing
        THEN /\ cli.pc = "exited" /\ cli.exitCode = Num(1)
             /\ cli.stdout = <<>>
             /\ Len(cli.stderr) = 1 /\ Last(cli.stderr[1]) = "cliUsage()"
             /\ NoConversion
        ELSE TRUE

\* A run with both paths and --help last printed the usage and exited with 0
C18_Witness ==
    /\ cli.args = << <<"a", ".", "o", "b", "j">>, <<"o", ".", "g", "l", "b">>, <<"-", "-", "h", "e", "l", "p">> >>
    /\ cli.pc = "exited"
    /\ cli.exitCode = Num(0)
    /\ cli.stdout = << <<"cliUsage()">> >>

\* The lines the notices are printed as: <tier>_<id>: <message>
RECURSIVE Lines(_)
Lines(notices) ==
    IF notices = <<>> THEN <<>>
    ELSE LET code == Head(notices).code
         IN  <<"\n  ", ToString(Tier(code)), "_">>
                 \o [j \in 1..4 |-> ToString((code \div (10 ^ (4 - j))) % 10)]
                 \o <<": ">> \o Head(notices).message \o Lines(Tail(notices))

\* The noticeLevel the third argument selects, 0 if it selects none
SelectedLevel ==
    IF Len(cli.args) >= 3 /\ \E l \in 1..4 : cli.args[3] = <<"-", "n", ToString(l)>>
    THEN CHOOSE l \in 1..4 : cli.args[3] = <<"-", "n", ToString(l)>>
    ELSE 0

\* C19: a run given both paths, and no help or version flag, exits with 0 if
\* the conversion's didSucceed is true and with 1 otherwise, having printed
\* the returned notices, each as <tier>_<id>: <message>; a third argument -n1
\* to -n4 makes the noticeLevel 1 to 4.
C19_CliCompletion ==
    (cli.pc = "exited" /\ ~HelpAsked /\ ~VersionAsked /\ ~PathMissing) =>
        /\ cli.exitCode = IF Returned(call) /\ call.promise.value.didSucceed
                          THEN Num(0) ELSE Num(1)
        /\ Returned(call) =>
               LET printed == IF call.promise.value.didSucceed
                              THEN cli.stdout ELSE cli.stderr
                   silent  == IF call.promise.value.didSucceed
                              THEN cli.stderr ELSE cli.stdout
               IN  /\ silent = <<>>
                   /\ Len(printed) = 1
                   /\ SubSeq(printed[1], 3, Len(printed[1]))
                          = Lines(call.promise.value.notices)
        /\ call.options = IF SelectedLevel = 0 THEN Obj(<<>>)
                          ELSE Obj(<<Prop("noticeLevel", Num(SelectedLevel))>>)
        /\ call.readFileCalls # <<>> =>
               call.noticeLevel = IF SelectedLevel = 0 THEN DefaultNoticeLevel
                                  ELSE SelectedLevel

\* A run with -n1 converted the model, printed its four notices and exited
\* with 0
C19_Witness ==
    /\ cli.args = << <<"a", ".", "o", "b", "j">>, <<"o", ".", "g", "l", "b">>, <<"-", "n", "1">> >>
    /\ cli.pc = "exited"
    /\ cli.exitCode = Num(0)
    /\ Len(call.promise.value.notices) = 4
    /\ SubSeq(cli.stdout[1], 1, 8)
           = <<"U+2705", " Conversion succeeded", "\n  ", "1", "_", "4", "4", "8">>

\* How far a call is: called, reading, converting, writing, done
Stage(pc) ==
    IF pc = "start" THEN 0
    ELSE IF pc = "readFile" THEN 1
    ELSE IF pc = "convertModel" THEN 2
    ELSE IF pc = "writeFile" THEN 3
    ELSE 4

\* Each collaborator was invoked at most once, the gateway only after
\* readFile succeeded and writeFile only after the gateway succeeded
InvokedOnceAndInOrder ==
    /\ Len(call.readFileCalls) <= 1
    /\ Len(call.convertModelCalls) <= 1
    /\ Len(call.writeFileCalls) <= 1
    /\ call.convertModelCalls # <<>> =>
           /\ Len(awaited) >= 1
           /\ awaited[1].callee = "readFile" /\ awaited[1].outcome.ok
           /\ Len(call.readFileCalls) = 1
    /\ call.writeFileCalls # <<>> =>
           /\ Len(awaited) >= 2
           /\ awaited[2].callee = "convertModel" /\ awaited[2].outcome.ok
           /\ Len(call.convertModelCalls) = 1

\* C20: a call only goes forward through its stages: readFile is invoked at
\* most once, the gateway at most once and only after readFile succeeded,
\* writeFile at most once and only after the gateway succeeded; every step
\* takes the call to a later stage, none back or to the same stage again, and
\* nothing happens once it is done.
C20_StagesOnlyGoForward ==
    /\ []InvokedOnceAndInOrder
    /\ [][Stage(call'.pc) > Stage(call.pc)]_vars

\* A call went through every stage and ended on a failed write, each
\* collaborator having been invoked once
C20_Witness ==
    /\ call.pc = "done"
    /\ WriteFileFailed
    /\ Len(call.readFileCalls) = 1
    /\ Len(call.convertModelCalls) = 1
    /\ Len(call.writeFileCalls) = 1

\* C21: the conversion library is initialised once per process: however many
\* calls of convertModel() there are, overlapping or not, initAssimpjs() is
\* invoked at most once.
C21_InitAssimpjsInvokedOnce == initAssimpjsCalls <= 1

\* a is the beginning of b
IsPrefix(a, b) == Len(a) <= Len(b) /\ SubSeq(b, 1, Len(a)) = a

\* C22: the notices of a run are append-only: after every step they are what
\* they were before the step, followed by the notices the step added, so none
\* is removed, reordered or modified; the sequence returned is the sequence
\* as appended.
C22_NoticesAreAppendOnly ==
    /\ [][IsPrefix(call.notices, call'.notices)]_vars
    /\ [](Returned(call) => call.promise.value.notices = call.notices)

\* A run at noticeLevel 1 that failed on writing returned its three debug
\* notices and the error notice, in the order they were appended
C22_Witness ==
    /\ Returned(call)
    /\ WriteFileFailed
    /\ Codes(call.notices) = <<CodeReading, CodeConverting, CodeWriting, CodeWriteError>>
    /\ call.promise.value.notices = call.notices

\* The code of the event a notice's message tells of, 0 if it tells of none
EventCode(message) ==
    LET said == message[1]
    IN  IF said = "Reading input file " THEN 14481
        ELSE IF said = "Converting " THEN 15118
        ELSE IF said = "Converted model in " THEN 27345
        ELSE IF said = "Writing output file " THEN 19158
        ELSE IF said = "Wrote " THEN 26152
        ELSE IF said = "Error reading file at " THEN 48172
        ELSE IF said = "Error converting model " THEN 49480
        ELSE IF said = "Error writing " THEN 41510
        ELSE 0

\* C23: every notice carries one of the codes 14481, 15118, 27345, 19158,
\* 26152, 48172, 49480, 41510, a 5-digit integer whose first digit, 1 to 4, is
\* its severity tier, and the notice of a given event always carries that
\* event's code.
C23_NoticeCodeSpace ==
    \A i \in 1..Len(call.notices) :
        LET n == call.notices[i]
        IN  /\ n.code \in { 14481, 15118, 27345, 19158, 26152, 48172, 49480, 41510 }
            /\ n.code >= 10000 /\ n.code <= 99999
            /\ Tier(n.code) \in 1..4
            /\ n.code = EventCode(n.message)

\* A run at noticeLevel 1 that failed on converting holds a debug notice of
\* each stage reached and the error notice of the conversion
C23_Witness ==
    /\ call.pc = "done"
    /\ Codes(call.notices) = <<14481, 15118, 49480>>
    /\ GatewayFailed

\* The promise of the call is settled, fulfilled or rejected
Settled == call.promise.state # "pending"

\* How many collaborators the call has invoked
Invocations ==
    Len(call.readFileCalls) + Len(call.convertModelCalls) + Len(call.writeFileCalls)

\* C24: when every invoked collaborator eventually returns or throws, every
\* call eventually settles, having invoked each collaborator at most once;
\* and a call is settled only when every collaborator it invoked has
\* completed, so that one that never completes leaves the call pending.
C24_CallsSettle ==
    /\ <>Settled
    /\ [](/\ Len(call.readFileCalls) <= 1
          /\ Len(call.convertModelCalls) <= 1
          /\ Len(call.writeFileCalls) <= 1
          /\ Settled => Len(awaited) = Invocations
          /\ Len(awaited) < Invocations => ~Settled)

\* A call at noticeLevel 4 settled after its three collaborators completed
C24_Witness ==
    /\ Settled
    /\ Returned(call)
    /\ call.options = Obj(<<Prop("noticeLevel", Num(4))>>)
    /\ Invocations = 3
    /\ Len(awaited) = 3

\* C25: once validation has passed the call never rejects: whatever value a
\* failing readFile, gateway or writeFile throws, the call returns a result
\* with didSucceed false and one error-tier notice.
C25_NeverRejectsAfterValidation ==
    call.readFileCalls # <<>> =>
        /\ ~Rejected(call)
        /\ (awaited # <<>> /\ ~Last(awaited).outcome.ok) =>
               /\ Returned(call)
               /\ ~call.promise.value.didSucceed
               /\ Cardinality(ErrorNotices(call.promise.value.notices)) = 1

\* The call holds a notice of a failed conversion
ConvertErrorNoticed ==
    \E i \in 1..Len(call.notices) : call.notices[i].code = CodeConvertError

\* The gateway failed on a check of its own arguments
GatewayRefusedArguments ==
    \E i \in 1..Len(awaited) :
        /\ awaited[i].callee = "convertModel"
        /\ ~awaited[i].outcome.ok
        /\ awaited[i].outcome.value.tag = "error"
        /\ awaited[i].outcome.value.message[1] = "convertModel(): Invalid"

\* The filename handed to the gateway is the last segment of the inputPath:
\* not empty, free of separators, with the inputPath's supported extension
FilenameIsLastSegment ==
    LET f == call.convertModelCalls[1].filename.chars
        s == call.inputPath.chars
    IN  /\ f # <<>>
        /\ \A i \in 1..Len(f) : f[i] \notin { "/", "\\" }
        /\ Len(f) <= Len(s)
        /\ SubSeq(s, Len(s) - Len(f) + 1, Len(s)) = f
        /\ Len(f) < Len(s) => s[Len(s) - Len(f)] \in { "/", "\\" }
        /\ \E k \in 1..9 :
               /\ EndsInExtension(f, k)
               /\ EndsInExtension(s, k)
               /\ SubSeq(f, Len(f) - k + 1, Len(f)) \in VALID_INPUT_EXTENSIONS

\* C26 as stated: the filename of an accepted inputPath passes the gateway's
\* own checks, and a 49480 notice only ever comes from the gateway's library.
C26_ConvertErrorOnlyFromLibrary ==
    /\ call.convertModelCalls # <<>> => FilenameIsLastSegment
    /\ ~GatewayRefusedArguments
    /\ ConvertErrorNoticed =>
           /\ Last(awaited).callee = "convertModel"
           /\ ~Last(awaited).outcome.ok

\* C26: for every accepted inputPath the filename handed to the gateway is
\* its last segment, not empty, without separator and with the same
\* supported extension, so the gateway's own filename checks never fail; a
\* 49480 notice comes from the gateway's library, initialisation included,
\* or from Buffer.from() refusing what readFile resolved with.
C26_FilenameChecksNeverFail ==
    /\ call.convertModelCalls # <<>> => FilenameIsLastSegment
    /\ ~GatewayRefusedArguments
    /\ ConvertErrorNoticed =>
           \/ /\ Last(awaited).callee = "convertModel"
              /\ ~Last(awaited).outcome.ok
           \/ /\ Last(awaited).callee = "readFile"
              /\ Last(awaited).outcome.ok
              /\ Last(awaited).outcome.value.tag \notin { "string", "Uint8Array" }
              /\ call.convertModelCalls = <<>>

\* The gateway was given e.fbx for the inputPath d/c\e.fbx and converted it
C26_Witness ==
    /\ call.inputPath = Str(<<"d", "/", "c", "\\", "e", ".", "f", "b", "x">>)
    /\ call.convertModelCalls # <<>>
    /\ call.convertModelCalls[1].filename = Str(<<"e", ".", "f", "b", "x">>)
    /\ Len(awaited) >= 2
    /\ awaited[2].outcome.ok

\* What the options argument of the call is wrong in, first fault first:
\* its shape, an unknown name, the type of noticeLevel, its range
OptionsFault ==
    LET o      == call.options
        keys   == { o.props[i].key : i \in 1..Len(o.props) }
        levels == { o.props[i].value : i \in { j \in 1..Len(o.props) :
                                                o.props[j].key = "noticeLevel" } }
    IN  IF o = Undefined THEN "none"
        ELSE IF o.tag # "object" THEN "shape"
        ELSE IF keys \ { "noticeLevel" } # {} THEN "name"
        ELSE IF \E l \in levels : l.tag # "number" THEN "type"
        ELSE IF \E l \in levels : ~IsValidLevel(l) THEN "range"
        ELSE "none"

\* The first invalid argument of the call and what is wrong with it
FirstFault ==
    IF FirstViolatedRule("inputPath", call.inputPath) # "none"
    THEN <<"inputPath", FirstViolatedRule("inputPath", call.inputPath)>>
    ELSE IF FirstViolatedRule("outputPath", call.outputPath) # "none"
    THEN <<"outputPath", FirstViolatedRule("outputPath", call.outputPath)>>
    ELSE <<"options", OptionsFault>>

\* The argument an error message is about and what it says is wrong with it
FaultCited(message) ==
    IF message[2] = "(): Invalid"
    THEN IF message[4] = "options" THEN <<"options", "shape">>
         ELSE <<message[4], RuleCited(message)>>
    ELSE IF Last(message) = " is not a recognised option name" THEN <<"options", "name">>
    ELSE IF message[5] = ".noticeLevel type '" THEN <<"options", "type">>
    ELSE IF message[5] = ".noticeLevel should be 1, 2, 3, or 4" THEN <<"options", "range">>
    ELSE <<"options", "other">>

\* C27: when arguments are invalid the error of any3dModelToGlb is the one
\* for the first invalid argument in the order inputPath, outputPath, shape of
\* options, properties of options, and among these an unknown name before the
\* type of noticeLevel before its range.
C27_ValidationPrecedence ==
    call.pc # "start" =>
        IF FirstFault = <<"options", "none">>
        THEN call.readFileCalls # <<>>
        ELSE /\ Rejected(call)
             /\ call.promise.value.name = "RangeError"
             /\ call.promise.value.message[1] = fn
             /\ FaultCited(call.promise.value.message) = FirstFault

\* A call with three invalid arguments was rejected for its inputPath
C27_Witness ==
    /\ call.inputPath = Num(123)
    /\ call.outputPath = Str(<<"o", ".", "s", "t", "l">>)
    /\ call.options = Null
    /\ Rejected(call)
    /\ FaultCited(call.promise.value.message) = <<"inputPath", "type">>

\* C28: in every failed result the error-tier notice is the last notice, and
\* once an error-tier notice is in the notices nothing more happens: no
\* notice of any tier is appended and no collaborator is invoked.
C28_ErrorNoticeIsLast ==
    /\ [](ErrorNotices(call.notices) # {} =>
             /\ ErrorNotices(call.notices) = { Len(call.notices) }
             /\ call.pc = "done")
    /\ []((Returned(call) /\ ~call.promise.value.didSucceed) =>
             Tier(Last(call.promise.value.notices).code) = ErrorTier)
    /\ [][ErrorNotices(call.notices) # {} =>
              /\ call'.notices = call.notices
              /\ call'.readFileCalls = call.readFileCalls
              /\ call'.convertModelCalls = call.convertModelCalls
              /\ call'.writeFileCalls = call.writeFileCalls]_vars

\* A run at noticeLevel 1 failed on reading: the error notice follows the
\* reading notice and no other collaborator was invoked
C28_Witness ==
    /\ Returned(call)
    /\ ~call.promise.value.didSucceed
    /\ Codes(call.promise.value.notices) = <<CodeReading, CodeReadError>>
    /\ call.convertModelCalls = <<>>
    /\ call.writeFileCalls = <<>>

\* C29: the defaults fill absent keys only: a call whose options hold the key
\* noticeLevel with the value undefined is rejected with the error about the
\* type of noticeLevel, and is not run at the default level 3.
C29_UndefinedNoticeLevelIsRejected ==
    (/\ call.pc # "start"
     /\ call.options = Obj(<<Prop("noticeLevel", Undefined)>>)
     /\ FirstViolatedRule("inputPath", call.inputPath) = "none"
     /\ FirstViolatedRule("outputPath", call.outputPath) = "none") =>
        /\ Rejected(call)
        /\ call.promise.value
               = Err("RangeError",
                     <<fn, "():", " Invalid ", "options", ".noticeLevel type '",
                       "undefined", "', should be 'number'">>)
        /\ call.readFileCalls = <<>>

\* The call with valid paths and { noticeLevel: undefined } was rejected
C29_Witness ==
    /\ call.options = Obj(<<Prop("noticeLevel", Undefined)>>)
    /\ call.inputPath = Str(<<"a", ".", "o", "b", "j">>)
    /\ call.outputPath = Str(<<"o", ".", "g", "l", "b">>)
    /\ Rejected(call)
    /\ FaultCited(call.promise.value.message) = <<"options", "type">>

\* C30: the call never changes the caller's options: at every step, whether
\* it passes or fails validation, goes on, returns a failure or succeeds, the
\* options hold the keys and values they held before the step.
C30_OptionsAreNotMutated == [][call'.options = call.options]_vars

\* A call made with {} succeeded at the default level and the caller's record
\* is still {}
C30_Witness ==
    /\ call.options = Obj(<<>>)
    /\ call.noticeLevel = DefaultNoticeLevel
    /\ Returned(call)
    /\ call.promise.value.didSucceed

====
